---- MODULE Spec2Model ----
(***************************************************************************)
(* Request/reply correlation over MQTT and the polling scheduler of        *)
(* tun009/backend.  Two services share the same design and are modelled    *)
(* side by side; the variable svc says which one a behaviour is about:     *)
(*   "gps" : processing-service GPSProcessor (connection manager, tick     *)
(*           loop, per-session fan-out, response listener)                 *)
(*   "api" : api-service MQTTPersistentService (initialize/close, listener *)
(*           task, on-demand get_device_realtime_info)                     *)
(* Every await of the source is a suspension point: a coroutine is cut     *)
(* into one action per stretch of code between two awaits.                 *)
(*                                                                         *)
(* Correlation ids come from uuid4 and are unique, so a key of             *)
(* _pending_requests is identified with the send call that drew it: the    *)
(* table is the set of calls whose id is a key (pending), plus the keys     *)
(* whose call has already returned (leaked: there is at least one).        *)
(***************************************************************************)
EXTENDS Integers, FiniteSets, Sequences, TLC

\* ---- bounds of the model ------------------------------------------------
MaxTasks == 2        \* concurrent send calls (sessions of a tick / API callers)
MaxClients == 2      \* aiomqtt.Client objects referred to at the same time
MaxListeners == 1    \* api: listener tasks alive at once
max_concurrent == 1  \* settings.MAX_CONCURRENT_DEVICES
max_retries == 2     \* settings.MAX_RETRIES
retry_delay == 1     \* settings.RETRY_DELAY (seconds)
MaxStamp == 3        \* values a field of a decoded reply can have
MaxApply == 2        \* applications of the payload normalization to one reply
MaxIds == 3          \* distinct values the session id generator can return
MaxFutures == 4      \* futures created for the pending table checked on its own
MaxRows == 2         \* journey sessions in the database
MaxWork == 3         \* longest time the work of one tick takes
scan_interval == 2   \* settings.SCAN_INTERVAL, in the time unit of MaxWork
MaxImeis == 2        \* distinct IMEIs a batch can ask for
MaxBatch == 3        \* longest list of IMEIs of one batch
batch_concurrent == 2 \* max_concurrent of get_multiple_devices_realtime_info
MaxSessions == 2     \* rows of the journey_sessions table
MaxReqs == 2         \* requests to the journey routes in progress together
MaxOwners == 2       \* vehicles, and drivers
MaxTime == 2         \* points of time

Tasks == 1..MaxTasks
Clients == 1..MaxClients
ITasks == 0..MaxListeners      \* api: 0 = the outside caller of initialize()/close()
LTasks == 1..MaxListeners      \* api: response-listener tasks

\* Reply payloads a device can publish: well-formed, well-formed but with
\* the misspelled 'timestap', valid JSON that lacks fields the API schema
\* requires, and bytes that are not JSON.
Bodies == {"good", "typo", "partial", "garbage"}

VARIABLES
    svc,        \* "gps" | "api"
    running,    \* gps: self._running
    connected,  \* self._connected
    client,     \* self._client: index of the current client, 0 = None
    link,       \* per client: "unused" | "new" | "up" | "down"
    subs,       \* per client: the reply-topic subscription is established
    mgr,        \* gps: the _manage_connection task: [pc, attempt, retry, delay],
                \* and won: it left the retry loop after a successful attempt
                \* and has not started the listener since
    scan,       \* gps: the _processing_loop task
    sem,        \* gps: free slots of the tick's semaphore
    stopper,    \* gps: position of a stop() call; api: "closed" once a
                \* close() has returned and no caller has called
                \* initialize() since
    dup,        \* gps: kinds of task ("mgr", "scan") created while one was alive
    itask,      \* api: tasks running initialize()/_listen_responses()
    lref,       \* api: _response_listener_task (0 = None)
    pending,    \* calls whose id is a key of self._pending_requests
    leaked,     \* self._pending_requests holds a key whose call has returned
    fut,        \* per call: state of its future
    ncompl,     \* per call: how many times its future was completed
    task,       \* per send call: [pc, cl, out], and what it has done so far:
                \* pubs (publish calls of the call), sends (gps: calls of
                \* _request_gps_data for the session in this tick), sink
                \* (gps: the calls of _save_device_log for the session),
                \* http (api: status the route answers with, 0 = none yet)
    stale,      \* replies to requests whose timeout has fired:
                \* "none" | "timedout" (one can arrive) | "dropped" (one was dropped)
    nz,         \* the payload normalization of the listeners on its own:
                \* [raw, cur, n], a decoded reply, what the normalization has
                \* made of it, how often it was applied
    tbl,        \* the registration of ids in _pending_requests on its own:
                \* [table, made, res]
    sc,         \* gps: the tick loop with its database and its clock on its own
    bt,         \* api: one call of get_multiple_devices_realtime_info on its own
    js          \* api: the journey_sessions table and the requests to its
                \* routes that are between two awaits: [rows, reqs]

mainVars == <<svc, running, connected, client, link, subs, mgr, scan, sem,
              stopper, dup, itask, lref, pending, leaked, fut, ncompl, task, stale>>

unitVars == <<nz, tbl, sc, bt, js>>

vars == <<mainVars, unitVars>>

connVars == <<connected, client, link, subs>>
gpsVars == <<running, mgr, scan, sem>>
apiVars == <<itask, lref>>
reqVars == <<pending, leaked, fut, ncompl, task, stale>>

IdleTask == [pc |-> "idle", cl |-> 0, out |-> "none",
             pubs |-> 0, sends |-> 0, sink |-> <<>>, http |-> 0]
NoITask == [pc |-> "none", cl |-> 0]

\* The parts modelled on their own, at rest.
NoUnit == [pc |-> "none"]

UnitsIdle ==
    nz = NoUnit /\ tbl = NoUnit /\ sc = NoUnit /\ bt = NoUnit /\ js = NoUnit

\* The fields of a service object after construction.
MainInit ==
    /\ running = FALSE
    /\ connected = FALSE
    /\ client = 0
    /\ link = [c \in Clients |-> "unused"]
    /\ subs = [c \in Clients |-> FALSE]
    /\ mgr = [pc |-> "none", attempt |-> 0, retry |-> FALSE, delay |-> 0,
              won |-> FALSE]
    /\ scan = "none"
    /\ sem = 0
    /\ stopper = "idle"
    /\ dup = {}
    /\ itask = [i \in ITasks |-> NoITask]
    /\ lref = 0
    /\ pending = {}
    /\ leaked = FALSE
    /\ fut = [t \in Tasks |-> "none"]
    /\ ncompl = [t \in Tasks |-> 0]
    /\ task = [t \in Tasks |-> IdleTask]
    /\ stale = "none"

Init ==
    /\ svc \in {"gps", "api"}
    /\ MainInit
    /\ UnitsIdle

\* ---- the clients ---------------------------------------------------------
\* A client object is referred to by self._client, by a publish that is
\* awaited on it, by an initialize() or a listener working on it, or by a
\* close() awaiting its __aexit__. One that nothing refers to is garbage,
\* and its index is used again.
Referenced(c) ==
    \/ c = client
    \/ \E t \in Tasks : task[t].cl = c
    \/ \E i \in ITasks : itask[i].cl = c

\* Clients other than self._client that something still refers to.
HeldElsewhere(c) ==
    \/ \E t \in Tasks : task[t].cl = c
    \/ \E i \in ITasks : itask[i].cl = c

FreeClients == {c \in Clients : ~Referenced(c)}

FreshClient == CHOOSE c \in FreeClients : \A d \in FreeClients : c <= d

\* The connection of a client is lost (network error, broker disconnect).
Drop(c) ==
    /\ link[c] = "up"
    /\ Referenced(c)
    /\ link' = [link EXCEPT ![c] = "down"]
    /\ subs' = [subs EXCEPT ![c] = FALSE]
    /\ UNCHANGED <<unitVars, svc, stopper, dup, connected, client>>
    /\ UNCHANGED <<gpsVars, apiVars, reqVars>>

\* ---- gps: _connect_mqtt and _manage_connection --------------------------
\* The manager task has left its loop (lines 64, 75, 81, 89).
ManagerOver ==
    [pc |-> "ended", attempt |-> 0, retry |-> FALSE, delay |-> 0, won |-> FALSE]

\* A backoff that does not grow.
DelayFlat(k) == retry_delay

\* `self.retry_delay * (2 ** (attempt - 1))` (line 90).
Delay(k) == retry_delay * (2 ^ (k - 1))

\* The manager sleeps before attempt k (lines 90-92).
Backoff(k) ==
    [pc |-> "backoff", attempt |-> k, retry |-> TRUE, delay |-> Delay(k),
     won |-> FALSE]

\* aiomqtt.Client(...) : a fresh client object becomes self._client.
\* `old` is what becomes of the client that self._client referred to.
NewClient(old, sb) ==
    /\ FreeClients # {}
    /\ client' = FreshClient
    /\ link' = [c \in Clients |->
                  IF c = FreshClient THEN "new"
                  ELSE IF c = client THEN (IF HeldElsewhere(c) THEN old ELSE "unused")
                  ELSE link[c]]
    /\ subs' = [c \in Clients |->
                  IF c = FreshClient THEN FALSE
                  ELSE IF c = client THEN HeldElsewhere(c) /\ old = "up" /\ sb[c]
                  ELSE sb[c]]

\* _connect_mqtt is called from the top of the while loop (r = FALSE) by
\* a manager that has just left the retry loop by the `break` of line 97,
\* after an attempt that succeeded.
LeftRetryLoop(r) == ~r /\ mgr.retry

\* _connect_mqtt up to its first await: either the await of the old
\* client's __aexit__ (lines 108-110) or, with nothing to clean up,
\* line 113 and the creation of the client, up to the await of __aenter__.
ConnectMqttBegin(r, att, sb) ==
    IF client # 0 /\ connected
    THEN /\ mgr' = [pc |-> "cleanup", attempt |-> att, retry |-> r,
                     delay |-> IF r THEN mgr.delay ELSE 0,
                     won |-> LeftRetryLoop(r)]
         /\ subs' = sb
         /\ UNCHANGED <<connected, client, link>>
    ELSE /\ mgr' = [pc |-> "aenter", attempt |-> att, retry |-> r,
                     delay |-> IF r THEN mgr.delay ELSE 0,
                     won |-> LeftRetryLoop(r)]
         /\ connected' = FALSE
         /\ NewClient(IF client = 0 THEN "unused" ELSE link[client], sb)

\* The top of `while self._running` (line 64) followed by _connect_mqtt.
MgrLoopTop(sb) ==
    IF running
    THEN ConnectMqttBegin(FALSE, 0, sb)
    ELSE /\ mgr' = ManagerOver
         /\ subs' = sb
         /\ UNCHANGED <<connected, client, link>>

\* Value of self._connected after the handlers of lines 71-77 have caught
\* the error and the reconnection logic has started (line 83).
ConnectedAfterLoss == FALSE

\* Lines 79-92: the reconnection logic entered from the main loop body,
\* up to the sleep before the first attempt.
ReconnectLogic ==
    IF ~running
    THEN /\ mgr' = ManagerOver
         /\ UNCHANGED connected
    ELSE /\ connected' = ConnectedAfterLoss
         /\ mgr' = Backoff(1)

\* A retry budget that is never used up.
BudgetNeverSpent(k) == FALSE

\* `if attempt == self.max_retries` (line 101).
RetryBudgetSpent(k) == k = max_retries

\* Lines 98-103 and the next iteration of the for loop: attempt k failed.
\* After the last attempt the manager returns (line 103); otherwise the
\* loop goes on with attempt k + 1 unless the processor was stopped (88-89).
RetryFailed ==
    /\ UNCHANGED connected
    /\ IF RetryBudgetSpent(mgr.attempt)
       THEN mgr' = [pc |-> "exhausted", attempt |-> mgr.attempt, retry |-> FALSE,
                    delay |-> 0, won |-> FALSE]
       ELSE IF ~running
       THEN mgr' = ManagerOver
       ELSE mgr' = Backoff(mgr.attempt + 1)

\* An error raised inside _connect_mqtt reaches the caller: the main loop
\* (line 67) or the retry loop (line 95).
ConnectRaised == IF mgr.retry THEN RetryFailed ELSE ReconnectLogic

\* The task created by initialize() runs for the first time.
MgrStart ==
    /\ svc = "gps"
    /\ mgr.pc = "start"
    /\ MgrLoopTop(subs)
    /\ UNCHANGED <<unitVars, svc, stopper, dup, running, scan, sem>>
    /\ UNCHANGED <<apiVars, reqVars>>

\* The old client's __aexit__ returned (or raised: ignored, line 111).
MgrCleanupDone ==
    /\ svc = "gps"
    /\ mgr.pc = "cleanup"
    /\ mgr' = [mgr EXCEPT !.pc = "aenter"]
    /\ connected' = FALSE
    /\ NewClient("down", subs)
    /\ UNCHANGED <<unitVars, svc, stopper, dup, running, scan, sem>>
    /\ UNCHANGED <<apiVars, reqVars>>

\* Line 126: the value of self._connected once __aenter__ has returned,
\* before the subscription is requested.
ConnectedAfterEnter == TRUE

\* __aenter__ returned: lines 126-129 up to the await of subscribe.
MgrAenterOk ==
    /\ svc = "gps"
    /\ mgr.pc = "aenter"
    /\ link[client] = "new"
    /\ link' = [link EXCEPT ![client] = "up"]
    /\ connected' = ConnectedAfterEnter
    /\ mgr' = [mgr EXCEPT !.pc = "subscribe"]
    /\ UNCHANGED <<unitVars, svc, stopper, dup, client, subs, running, scan, sem>>
    /\ UNCHANGED <<apiVars, reqVars>>

\* __aenter__ raised (broker unreachable).
MgrAenterFail ==
    /\ svc = "gps"
    /\ mgr.pc = "aenter"
    /\ link[client] = "new"
    /\ link' = [link EXCEPT ![client] = "down"]
    /\ ConnectRaised
    /\ UNCHANGED <<unitVars, svc, stopper, dup, client, subs, running, scan, sem>>
    /\ UNCHANGED <<apiVars, reqVars>>

\* subscribe returned: _connect_mqtt returns. From the main loop the
\* listener starts (line 69); from the retry loop `break` leads back to the
\* top of the while loop, which calls _connect_mqtt again.
MgrSubscribeOk ==
    /\ svc = "gps"
    /\ mgr.pc = "subscribe"
    /\ link[client] = "up"
    /\ IF mgr.retry
       THEN MgrLoopTop([subs EXCEPT ![client] = TRUE])
       ELSE /\ mgr' = [mgr EXCEPT !.pc = "listen", !.won = FALSE]
            /\ subs' = [subs EXCEPT ![client] = TRUE]
            /\ UNCHANGED <<connected, client, link>>
    /\ UNCHANGED <<unitVars, svc, stopper, dup, running, scan, sem>>
    /\ UNCHANGED <<apiVars, reqVars>>

\* subscribe raised: self._connected keeps the value set at line 126.
MgrSubscribeFail ==
    /\ svc = "gps"
    /\ mgr.pc = "subscribe"
    /\ ConnectRaised
    /\ UNCHANGED <<unitVars, svc, stopper, dup, client, link, subs, running, scan, sem>>
    /\ UNCHANGED <<apiVars, reqVars>>

\* `async for message in self._client.messages` raised MqttError because
\* the connection dropped (line 336, caught at line 71).
MgrListenFail ==
    /\ svc = "gps"
    /\ mgr.pc = "listen"
    /\ link[client] = "down"
    /\ ReconnectLogic
    /\ UNCHANGED <<unitVars, svc, stopper, dup, client, link, subs, running, scan, sem>>
    /\ UNCHANGED <<apiVars, reqVars>>

\* The backoff sleep of line 92 is over: attempt mgr.attempt (line 95).
MgrBackoffDone ==
    /\ svc = "gps"
    /\ mgr.pc = "backoff"
    /\ ConnectMqttBegin(TRUE, mgr.attempt, subs)
    /\ UNCHANGED <<unitVars, svc, stopper, dup, running, scan, sem>>
    /\ UNCHANGED <<apiVars, reqVars>>

\* A manager task, a tick-loop task that has been created and is not over.
ManagerAlive == mgr.pc \notin {"none", "ended", "exhausted"}
LoopAlive == scan \notin {"none", "ended"}

\* An initialize() that always creates a task.
InitializeNeverRefused == FALSE

\* `if self._connection_handler_task` (line 57): the attribute is set by
\* the first initialize() and never reset.
InitializeRefused == mgr.pc # "none"

\* Lines 57-60: the manager task after initialize(), and whether a second
\* live manager task has been made.
MgrAfterInitialize ==
    IF InitializeRefused THEN mgr ELSE [ManagerOver EXCEPT !.pc = "start"]

DupAfterInitialize ==
    IF ~InitializeRefused /\ ManagerAlive THEN {"mgr"} ELSE {}

\* initialize() (lines 55-60), called from outside.
GpsInitialize ==
    /\ svc = "gps"
    /\ mgr' = MgrAfterInitialize
    /\ dup' = dup \cup DupAfterInitialize
    /\ UNCHANGED <<unitVars, svc, stopper, running, scan, sem>>
    /\ UNCHANGED <<connVars, apiVars, reqVars>>

\* A start_processing() that never returns early.
StartNeverRefused == FALSE

\* `if self._running` (line 134).
StartRefused == running

\* start_processing() (lines 132-141): initialize() has no await, so the
\* call is one step.
GpsStart ==
    /\ svc = "gps"
    /\ IF StartRefused
       THEN UNCHANGED <<running, mgr, scan, dup>>
       ELSE /\ running' = TRUE
            /\ mgr' = MgrAfterInitialize
            /\ scan' = "start"
            /\ dup' = dup \cup DupAfterInitialize
                           \cup (IF LoopAlive THEN {"scan"} ELSE {})
    /\ UNCHANGED <<unitVars, svc, stopper, sem>>
    /\ UNCHANGED <<connVars, apiVars, reqVars>>


\* ---- the pending-request table and the futures --------------------------
InFlight(t) == task[t].pc \in {"pub", "wait", "tmo"}

\* self._pending_requests has no key.
TableEmpty == pending = {} /\ ~leaked

\* Links and subscriptions once the clients nothing refers to any more are
\* forgotten (evaluated after the step's references are known).
Sweep(l, blank) ==
    [c \in Clients |->
        IF \/ c = client'
           \/ \E t \in Tasks : task'[t].cl = c
           \/ \E i \in ITasks : itask'[i].cl = c
        THEN l[c] ELSE blank]

\* A send that never looks at the connection state.
RejectNever == FALSE

\* `if not self._connected or not self._client` (gps 286, api 215).
RejectSend == ~connected \/ client = 0

\* What a rejected send gives its caller: None (gps 288), an
\* MQTTConnectionError (api 216).
RejectOutcome == IF svc = "gps" THEN "None" ELSE "MQTTConnectionError"

\* The send function is entered for task t: _request_gps_data, called once
\* by _collect_gps_data (line 272), or get_device_realtime_info.
Called(t) ==
    [task[t] EXCEPT !.out = "none", !.pubs = 0, !.http = 0,
                    !.sends = IF svc = "gps" THEN @ + 1 ELSE @]

\* A send that publishes its request a second time.
PublishTwice(n) == n + 2

\* The one call of publish in a send (gps 312, api 238).
Publish(n) == n + 1

\* Lines gps 308-309 / api 234-235: a fresh id, a new future, the table
\* entry; then the call of publish on the current client.
Register(t) ==
    /\ fut' = [fut EXCEPT ![t] = "pending"]
    /\ ncompl' = [ncompl EXCEPT ![t] = 0]
    /\ pending' = pending \cup {t}
    /\ task' = [task EXCEPT ![t] = [Called(t) EXCEPT !.pc = "pub", !.cl = client,
                                                      !.pubs = Publish(@)]]
    /\ UNCHANGED <<leaked, stale>>

\* A route that answers every failure as a device timeout.
HttpStatusAlwaysTimeout(o) == IF o = "result" THEN 200 ELSE 408

\* The route get_device_realtime_info (devices_routes.py 269-301): the
\* data of the response is returned, each exception of the service becomes
\* an HTTPException.
HttpStatus(o) ==
    IF o = "result" THEN 200
    ELSE IF o = "DeviceTimeoutError" THEN 408
    ELSE IF o = "MQTTConnectionError" THEN 503
    ELSE IF o = "InvalidResponseError" THEN 502
    ELSE 500

\* The send call whose record is r is over with outcome o. A gps session
\* task leaves `async with semaphore` (line 250) and is done for this tick.
Over(r, o) ==
    [r EXCEPT !.pc = IF svc = "gps" THEN "done" ELSE "idle", !.cl = 0, !.out = o,
              !.http = IF svc = "api" THEN HttpStatus(o) ELSE 0]

Return(t, o) == Over(task[t], o)

\* The send is rejected at its first line.
Rejected(t) == Over(Called(t), RejectOutcome)

\* A semaphore whose slot is kept by the session that took it.
ReleaseNothing == sem

\* The semaphore after `async with semaphore` is left (line 250).
Release == IF svc = "gps" THEN sem + 1 ELSE sem

\* The outer handler has caught an error of the call (publish raised, or
\* the future carried an exception): gps line 325 only logs and the key of
\* the call, if still in the table, stays; api line 253 pops it.
KeyLeftAfterError(t) == svc = "gps" /\ t \in pending

LeakedAfter(left) == leaked \/ left

PublishErrorOutcome == IF svc = "gps" THEN "None" ELSE "MQTTConnectionError"

\* A published request whose call has timed out: its reply can still arrive.
StaleAfterTimeout == IF stale = "none" THEN "timedout" ELSE stale

\* publish returned: the request is on its way to the device.
TaskPublishOk(t) ==
    /\ task[t].pc = "pub"
    /\ link[task[t].cl] = "up"
    /\ task' = [task EXCEPT ![t] = [@ EXCEPT !.pc = "wait", !.cl = 0]]
    /\ UNCHANGED <<unitVars, svc, stopper, dup, connected, client, pending, leaked, fut, ncompl, stale>>
    /\ UNCHANGED <<gpsVars, apiVars>>
    /\ link' = Sweep(link, "unused")
    /\ subs' = Sweep(subs, FALSE)

\* publish raised MqttError: the client it was called on is not connected.
TaskPublishFail(t) ==
    /\ task[t].pc = "pub"
    /\ link[task[t].cl] # "up"
    /\ pending' = pending \ {t}
    /\ leaked' = LeakedAfter(KeyLeftAfterError(t))
    /\ fut' = [fut EXCEPT ![t] = "none"]
    /\ ncompl' = [ncompl EXCEPT ![t] = 0]
    /\ task' = [task EXCEPT ![t] = Return(t, PublishErrorOutcome)]
    /\ sem' = Release
    /\ UNCHANGED <<unitVars, svc, stopper, dup, connected, client, stale, running, mgr, scan>>
    /\ UNCHANGED apiVars
    /\ link' = Sweep(link, "unused")
    /\ subs' = Sweep(subs, FALSE)

\* A wait without a deadline.
NoDeadline(t) == FALSE

\* `asyncio.wait_for(future, timeout=self.timeout)` (gps 317, api 243):
\* the timer of the wait is armed as long as the future is not done.
TimerArmed(t) == fut[t] = "pending"

\* asyncio.wait_for: the timeout fires on a future that is not done and
\* cancels it; the caller resumes one loop iteration later.
TaskTimerFire(t) ==
    /\ task[t].pc = "wait"
    /\ TimerArmed(t)
    /\ fut' = [fut EXCEPT ![t] = "cancelled"]
    /\ ncompl' = [ncompl EXCEPT ![t] = @ + 1]
    /\ task' = [task EXCEPT ![t].pc = "tmo"]
    /\ UNCHANGED <<unitVars, svc, stopper, dup, pending, leaked, stale>>
    /\ UNCHANGED <<connVars, gpsVars, apiVars>>

TimeoutOutcome == IF svc = "gps" THEN "None" ELSE "DeviceTimeoutError"

\* A TimeoutError handler that leaves the table as it is.
PendingKept(t) == pending

\* The table after the TimeoutError handler: pop(session_id, None)
\* (gps 321, api 247 and 253).
PendingAfterTimeout(t) == pending \ {t}

\* The caller resumes with asyncio.TimeoutError (gps 320-323, api 245-249).
TaskTimeoutResume(t) ==
    /\ task[t].pc = "tmo"
    /\ pending' = PendingAfterTimeout(t)
    /\ task' = [task EXCEPT ![t] = Return(t, TimeoutOutcome)]
    /\ sem' = Release
    /\ fut' = [fut EXCEPT ![t] = "none"]
    /\ ncompl' = [ncompl EXCEPT ![t] = 0]
    /\ stale' = StaleAfterTimeout
    /\ UNCHANGED <<unitVars, svc, stopper, dup, leaked, running, mgr, scan>>
    /\ UNCHANGED <<connVars, apiVars>>

\* What the caller gets from a future completed with an exception: gps
\* line 325 turns every exception into None; api lines 251-257 re-raise.
ErrorOutcome(f) ==
    IF svc = "gps" THEN "None"
    ELSE IF f = "decode_err" THEN "InvalidResponseError" ELSE "MQTTConnectionError"

\* The future was completed with a result.
IsResult(f) == f \in {"result", "nodata"}

\* A row of the active-session query (lines 229-237): the session's id and
\* the IMEI of the device of its vehicle.
Session(t) == [id |-> t, device_imei |-> MaxTasks + t]

\* A sink that is handed the reply as it came, metadata included.
SinkWholeReply(f) == "reply"

\* `mqtt_response.get('data', {})` (line 368): the data block of the
\* reply, the empty object when it has none.
SinkPayload(f) == IF f = "result" THEN "data" ELSE "empty"

\* The arguments of the call of _save_device_log (line 276) and what it
\* puts in the DeviceLog row (lines 370-375).
SinkArgs(t, f) ==
    [session |-> Session(t).id, imei |-> Session(t).device_imei,
     payload |-> SinkPayload(f)]

\* The caller resumes with the outcome of its completed future; the gps
\* task, given a result, calls _save_device_log (lines 274-276).
TaskFutureDone(t) ==
    /\ task[t].pc = "wait"
    /\ fut[t] \in {"result", "nodata", "decode_err", "conn_err"}
    /\ IF IsResult(fut[t])
       THEN /\ task' = [task EXCEPT ![t] =
                   IF svc = "gps"
                   THEN [@ EXCEPT !.pc = "save",
                                  !.sink = Append(@, SinkArgs(t, fut[t]))]
                   ELSE Return(t, "result")]
            /\ UNCHANGED sem
       ELSE /\ task' = [task EXCEPT ![t] = Return(t, ErrorOutcome(fut[t]))]
            /\ sem' = Release
    /\ pending' = pending \ {t}
    /\ leaked' = LeakedAfter(KeyLeftAfterError(t))
    /\ fut' = [fut EXCEPT ![t] = "none"]
    /\ ncompl' = [ncompl EXCEPT ![t] = 0]
    /\ UNCHANGED <<unitVars, svc, stopper, dup, stale, running, mgr, scan>>
    /\ UNCHANGED <<connVars, apiVars>>

\* ---- the response listener ----------------------------------------------
\* json.loads, the 'timestap' fix and, in the api service, the
\* construction of DeviceRealtimeResponse (gps 345-356, api 142-158). The
\* gps service takes every JSON object as a result: "result" is a reply
\* with its data block, "nodata" an object without one.
Decode(body) ==
    IF body = "garbage" THEN "decode_err"
    ELSE IF body = "partial" THEN (IF svc = "api" THEN "decode_err" ELSE "nodata")
    ELSE "result"

\* A listener that completes the future it finds without looking at done().
ResolveAlways(t) == TRUE

\* `if not future.done()` (gps 343, api 139).
CanResolve(t) == fut[t] = "pending"

\* A listener that empties the table on every message.
PendingAfterMessageNone(k) == {}

\* The table after the listener has looked up the id of a message
\* (gps 341-342, api 136-137).
PendingAfterMessage(k) == pending \ {k}

\* The body of the listener's loop for one message. Its topic carries the
\* id of the call of task k, or (k = 0) of a call that has timed out and
\* returned.
OnMessage(k, body) ==
    /\ pending' = PendingAfterMessage(k)
    /\ IF k \in pending /\ CanResolve(k)
       THEN /\ fut' = [fut EXCEPT ![k] = Decode(body)]
            /\ ncompl' = [ncompl EXCEPT ![k] = @ + 1]
       ELSE UNCHANGED <<fut, ncompl>>
    /\ stale' = IF k = 0 THEN "dropped" ELSE stale

\* Topics, as lists of segments. The reply to the request with id k comes on
\* user/{user_no}/{k}/manage/get-configs-result (gps 128, api 70); the
\* other shapes have a wrong first segment, a wrong last segment, or fewer
\* than three segments.
OffShapes == {"prefix", "suffix", "short"}

Topic(shape, k) ==
    IF shape = "reply" THEN <<"user", "user_no", k, "manage", "get-configs-result">>
    ELSE IF shape = "prefix" THEN <<"device", "user_no", k, "manage", "get-configs-result">>
    ELSE IF shape = "suffix" THEN <<"user", "user_no", k, "manage", "get-configs">>
    ELSE <<"user", k>>

\* `topic_parts = str(message.topic).split('/')`, `if len(topic_parts) >= 3`,
\* `session_id = topic_parts[2]` (gps 338-340, api 131-133): the third
\* segment is looked up, a shorter topic is passed over.
OnTopic(topic, body) ==
    IF Len(topic) >= 3
    THEN OnMessage(topic[3], body)
    ELSE UNCHANGED <<pending, fut, ncompl, stale>>

\* A device answers a request it received; the broker hands the reply to a
\* client that is connected and subscribed.
Deliverable(c, k) ==
    /\ c # 0
    /\ link[c] = "up"
    /\ subs[c]
    /\ IF k = 0 THEN stale # "none" ELSE task[k].pc \in {"wait", "tmo"}

GpsListen(k, body) ==
    /\ svc = "gps"
    /\ mgr.pc = "listen"
    /\ Deliverable(client, k)
    /\ OnTopic(Topic("reply", k), body)
    /\ UNCHANGED <<unitVars, svc, stopper, dup, task, leaked>>
    /\ UNCHANGED <<connVars, gpsVars, apiVars>>

\* ---- gps: the tick loop and the per-session tasks -----------------------
\* A loop that gives up when it finds the processor disconnected.
ScanLoopTopQuits ==
    scan' = IF ~running \/ ~connected THEN "ended" ELSE "query"

\* Top of `while self._running` in _processing_loop (lines 176-184).
ScanLoopTop ==
    scan' = IF ~running THEN "ended"
            ELSE IF ~connected THEN "sleep"
            ELSE "query"

\* Lines 172-174: wait for the first connection, then enter the loop.
ScanWaitConnection ==
    /\ svc = "gps"
    /\ scan \in {"start", "waitconn"}
    /\ IF ~connected /\ running THEN scan' = "waitconn" ELSE ScanLoopTop
    /\ UNCHANGED <<unitVars, svc, stopper, dup, running, mgr, sem>>
    /\ UNCHANGED <<connVars, apiVars, reqVars>>

\* asyncio.sleep(self.scan_interval) is over (lines 180, 192, 198).
ScanWake ==
    /\ svc = "gps"
    /\ scan = "sleep"
    /\ ScanLoopTop
    /\ UNCHANGED <<unitVars, svc, stopper, dup, running, mgr, sem>>
    /\ UNCHANGED <<connVars, apiVars, reqVars>>

\* asyncio.Semaphore(self.max_concurrent) (line 247).
NewSemaphore == max_concurrent

\* _get_active_journey_sessions returned n sessions, numbered 1..n (the
\* empty list also when the query failed); _process_sessions creates one
\* task per session and awaits them all (lines 184-190, 245-260).
ScanQueryDone(n) ==
    /\ svc = "gps"
    /\ scan = "query"
    /\ IF n = 0
       THEN /\ scan' = "sleep"
            /\ UNCHANGED <<task, sem>>
       ELSE /\ scan' = "gather"
            /\ sem' = NewSemaphore
            /\ task' = [t \in Tasks |-> IF t <= n
                                        THEN [IdleTask EXCEPT !.pc = "sem"]
                                        ELSE IdleTask]
    /\ UNCHANGED <<unitVars, svc, stopper, dup, running, mgr, pending, leaked, fut, ncompl, stale>>
    /\ UNCHANGED <<connVars, apiVars>>

\* A gather that returns with the first session that is over.
GatherReturnsEarly == \E t \in Tasks : task[t].pc = "done"

\* gather(*tasks, return_exceptions=True) is done when each of its tasks
\* is (line 260).
AllSessionsOver == \A t \in Tasks : task[t].pc \in {"idle", "done"}

\* asyncio.gather returned (line 260); the tasks that are over are
\* forgotten, and the loop goes to its sleep (line 192).
ScanGatherDone ==
    /\ svc = "gps"
    /\ scan = "gather"
    /\ AllSessionsOver
    /\ task' = [t \in Tasks |-> IF task[t].pc = "done" THEN IdleTask ELSE task[t]]
    /\ scan' = "sleep"
    /\ UNCHANGED <<unitVars, svc, stopper, dup, running, mgr, sem, pending, leaked, fut, ncompl, stale>>
    /\ UNCHANGED <<connVars, apiVars>>

\* A semaphore that lets every session in.
AcquireAlways == TRUE

\* `async with semaphore` is entered when a slot is free (line 250).
CanAcquire == sem > 0

\* A session task gets a slot and runs _collect_gps_data up to the await
\* of publish, or to its end when the send is rejected (lines 250-312).
GpsTaskAcquire(t) ==
    /\ svc = "gps"
    /\ task[t].pc = "sem"
    /\ CanAcquire
    /\ IF RejectSend
       THEN /\ task' = [task EXCEPT ![t] = Rejected(t)]
            /\ UNCHANGED <<sem, pending, leaked, fut, ncompl, stale>>
       ELSE /\ Register(t)
            /\ sem' = sem - 1
    /\ UNCHANGED <<unitVars, svc, stopper, dup, running, mgr, scan>>
    /\ UNCHANGED <<connVars, apiVars>>

\* _save_device_log committed the DeviceLog row (lines 364-378).
GpsSaveOk(t) ==
    /\ svc = "gps"
    /\ task[t].pc = "save"
    /\ task' = [task EXCEPT ![t] = Return(t, "stored")]
    /\ sem' = Release
    /\ UNCHANGED <<unitVars, svc, stopper, dup, running, mgr, scan, pending, leaked, fut, ncompl, stale>>
    /\ UNCHANGED <<connVars, apiVars>>

\* The commit failed; the error is caught at line 390 (or 281).
GpsSaveFail(t) ==
    /\ svc = "gps"
    /\ task[t].pc = "save"
    /\ task' = [task EXCEPT ![t] = Return(t, "store_failed")]
    /\ sem' = Release
    /\ UNCHANGED <<unitVars, svc, stopper, dup, running, mgr, scan, pending, leaked, fut, ncompl, stale>>
    /\ UNCHANGED <<connVars, apiVars>>

\* ---- gps: stop() ---------------------------------------------------------
\* The session tasks that end with the tick loop: the loop's task is
\* cancelled while it awaits gather (line 260), and gather passes the
\* cancellation on to every task it awaits.
CancelledByStop(t) ==
    /\ scan = "gather"
    /\ task[t].pc \in {"sem", "pub", "wait", "tmo", "save"}

\* A session task that the cancellation would leave alone.

\* A session task after the cancellation: CancelledError is no Exception,
\* so no handler of lines 253, 281, 320, 325 runs; the task is over.
TaskAfterStop(t) ==
    IF CancelledByStop(t)
    THEN [task[t] EXCEPT !.pc = "done", !.cl = 0, !.out = "cancelled"]
    ELSE task[t]

\* stop() up to its await of gather (lines 145-157): the flag is cleared,
\* the tick loop and the connection manager are cancelled. The key of a
\* cancelled request stays in the table.
GpsStopBegin ==
    /\ svc = "gps"
    /\ stopper = "idle"
    /\ stopper' = "wait"
    /\ running' = FALSE
    /\ scan' = IF LoopAlive THEN "ended" ELSE scan
    /\ mgr' = IF ManagerAlive THEN ManagerOver ELSE mgr
    /\ task' = [t \in Tasks |-> TaskAfterStop(t)]
    /\ fut' = [t \in Tasks |-> IF task'[t] # task[t] THEN "none" ELSE fut[t]]
    /\ ncompl' = [t \in Tasks |-> IF task'[t] # task[t] THEN 0 ELSE ncompl[t]]
    /\ pending' = {t \in pending : task'[t] = task[t]}
    /\ leaked' = (leaked \/ \E t \in pending : task'[t] # task[t])
    /\ sem' = sem + Cardinality({t \in Tasks :
                        /\ task'[t] # task[t]
                        /\ task[t].pc \in {"pub", "wait", "tmo", "save"}})
    /\ UNCHANGED <<unitVars, svc, dup, connected, client, stale>>
    /\ UNCHANGED apiVars
    /\ link' = Sweep(link, "unused")
    /\ subs' = Sweep(subs, FALSE)

\* gather returned; `if self._client and self._connected` (line 160).
GpsStopClose ==
    /\ svc = "gps"
    /\ stopper = "wait"
    /\ stopper' = IF client # 0 /\ connected THEN "aexit" ELSE "idle"
    /\ UNCHANGED <<unitVars, svc, dup, running, mgr, scan, sem>>
    /\ UNCHANGED <<connVars, apiVars, reqVars>>

\* __aexit__ returned: lines 162-164.
GpsStopAexitOk ==
    /\ svc = "gps"
    /\ stopper = "aexit"
    /\ link[client] = "up"
    /\ stopper' = "idle"
    /\ connected' = FALSE
    /\ link' = [link EXCEPT ![client] = "down"]
    /\ subs' = [subs EXCEPT ![client] = FALSE]
    /\ UNCHANGED <<unitVars, svc, dup, client, running, mgr, scan, sem>>
    /\ UNCHANGED <<apiVars, reqVars>>

\* __aexit__ raised on a client that is not connected: lines 165-166.
GpsStopAexitFail ==
    /\ svc = "gps"
    /\ stopper = "aexit"
    /\ link[client] # "up"
    /\ stopper' = "idle"
    /\ UNCHANGED <<unitVars, svc, dup, running, mgr, scan, sem>>
    /\ UNCHANGED <<connVars, apiVars, reqVars>>

\* ---- api: initialize, the listener task, close --------------------------
\* initialize() ended in task i: an outside caller gets control back; in
\* a listener task it was the last call of _handle_connection_error, and
\* the task ends with it.
InitOver(i) == [itask EXCEPT ![i] = NoITask]

\* initialize() up to the await of __aenter__ (lines 49-70), called from
\* outside (i = 0) or by a listener task whose 5 s sleep is over (line 192).
ApiInitBegin(i) ==
    /\ svc = "api"
    /\ \/ i = 0 /\ itask[i].pc = "none" /\ ~connected
       \/ i # 0 /\ itask[i].pc = "sleep"
    /\ IF connected
       THEN /\ itask' = InitOver(i)
            /\ UNCHANGED <<client, link, subs>>
       ELSE /\ NewClient(IF client = 0 THEN "unused" ELSE link[client], subs)
            /\ itask' = [itask EXCEPT ![i] = [pc |-> "aenter", cl |-> FreshClient]]
    /\ stopper' = IF i = 0 THEN "idle" ELSE stopper
    /\ UNCHANGED <<unitVars, svc, dup, connected, lref>>
    /\ UNCHANGED <<gpsVars, reqVars>>

\* Line 71: the value of _connected once __aenter__ has returned.
ApiConnectedAfterEnter == TRUE

\* __aenter__ returned; lines 71-75 up to the await of subscribe, which is
\* called on whatever client self._client is now (None: AttributeError,
\* lines 83-86).
ApiAenterOk(i) ==
    /\ svc = "api"
    /\ itask[i].pc = "aenter"
    /\ link[itask[i].cl] = "new"
    /\ IF client = 0
       THEN /\ connected' = FALSE
            /\ itask' = InitOver(i)
       ELSE /\ connected' = ApiConnectedAfterEnter
            /\ itask' = [itask EXCEPT ![i] = [pc |-> "sub", cl |-> client]]
    /\ UNCHANGED <<unitVars, svc, stopper, dup, client, lref>>
    /\ UNCHANGED <<gpsVars, reqVars>>
    /\ link' = Sweep([link EXCEPT ![itask[i].cl] = "up"], "unused")
    /\ subs' = Sweep(subs, FALSE)

\* __aenter__ raised: lines 83-86.
ApiAenterFail(i) ==
    /\ svc = "api"
    /\ itask[i].pc = "aenter"
    /\ link[itask[i].cl] \in {"new", "down"}
    /\ connected' = FALSE
    /\ itask' = InitOver(i)
    /\ UNCHANGED <<unitVars, svc, stopper, dup, client, lref>>
    /\ UNCHANGED <<gpsVars, reqVars>>
    /\ link' = Sweep([link EXCEPT ![itask[i].cl] = "down"], "unused")
    /\ subs' = Sweep(subs, FALSE)

\* A slot for the task made by asyncio.create_task (line 79): the
\* initializing listener task ends in the same step, so its slot is free.
ListenerSlot(i) ==
    IF i # 0 THEN i
    ELSE IF \E j \in LTasks : itask[j].pc = "none"
         THEN CHOOSE j \in LTasks : /\ itask[j].pc = "none"
                                    /\ \A k \in LTasks : itask[k].pc = "none" => j <= k
         ELSE 0

\* subscribe returned: the listener task is created (lines 75-81).
ApiSubscribeOk(i) ==
    /\ svc = "api"
    /\ itask[i].pc = "sub"
    /\ link[itask[i].cl] = "up"
    /\ ListenerSlot(i) # 0
    /\ itask' = [InitOver(i) EXCEPT ![ListenerSlot(i)] = [pc |-> "new", cl |-> 0]]
    /\ lref' = ListenerSlot(i)
    /\ UNCHANGED <<unitVars, svc, stopper, dup, connected, client>>
    /\ UNCHANGED <<gpsVars, reqVars>>
    /\ link' = Sweep(link, "unused")
    /\ subs' = Sweep([subs EXCEPT ![itask[i].cl] = TRUE], FALSE)

\* subscribe raised: lines 83-86.
ApiSubscribeFail(i) ==
    /\ svc = "api"
    /\ itask[i].pc = "sub"
    /\ connected' = FALSE
    /\ itask' = InitOver(i)
    /\ UNCHANGED <<unitVars, svc, stopper, dup, client, lref>>
    /\ UNCHANGED <<gpsVars, reqVars>>
    /\ link' = Sweep(link, "unused")
    /\ subs' = Sweep(subs, FALSE)

\* The listener task runs for the first time (lines 121-127).
ApiListenerStart(j) ==
    /\ svc = "api"
    /\ itask[j].pc = "new"
    /\ itask' = IF client = 0 THEN InitOver(j)
                ELSE [itask EXCEPT ![j] = [pc |-> "run", cl |-> client]]
    /\ UNCHANGED <<unitVars, svc, stopper, dup, lref>>
    /\ UNCHANGED <<connVars, gpsVars, reqVars>>

ApiListen(j, k, body) ==
    /\ svc = "api"
    /\ itask[j].pc = "run"
    /\ Deliverable(itask[j].cl, k)
    /\ OnTopic(Topic("reply", k), body)
    /\ UNCHANGED <<unitVars, svc, stopper, dup, task, leaked>>
    /\ UNCHANGED <<connVars, gpsVars, apiVars>>

\* The message stream of a connected client yields a message whose topic
\* has not the shape of a reply; where an id stands in it, it is k.
GpsListenOffShape(shape, k, body) ==
    /\ svc = "gps"
    /\ mgr.pc = "listen"
    /\ client # 0 /\ link[client] = "up"
    /\ OnTopic(Topic(shape, k), body)
    /\ UNCHANGED <<unitVars, svc, stopper, dup, task, leaked>>
    /\ UNCHANGED <<connVars, gpsVars, apiVars>>

ApiListenOffShape(j, shape, k, body) ==
    /\ svc = "api"
    /\ itask[j].pc = "run"
    /\ itask[j].cl # 0 /\ link[itask[j].cl] = "up"
    /\ OnTopic(Topic(shape, k), body)
    /\ UNCHANGED <<unitVars, svc, stopper, dup, task, leaked>>
    /\ UNCHANGED <<connVars, gpsVars, apiVars>>

\* A connection-loss handler that fails no future.
FailNothing(t) == fut[t]

\* The future of call t after `if not future.done(): future.set_exception(
\* MQTTConnectionError(...))` over every entry (lines 184-186, 105-107).
FailPending(t) == IF t \in pending /\ fut[t] = "pending" THEN "conn_err" ELSE fut[t]

\* self._pending_requests.clear() (lines 187, 108).
PendingAfterClear == {}

FailAll ==
    /\ fut' = [t \in Tasks |-> FailPending(t)]
    /\ ncompl' = [t \in Tasks |-> IF FailPending(t) # fut[t] THEN ncompl[t] + 1
                                  ELSE ncompl[t]]
    /\ pending' = PendingAfterClear
    /\ leaked' = FALSE

\* Line 181: the flag once the connection loss is being handled.
ApiConnectedAfterLoss == FALSE

\* The message stream raised: _handle_connection_error up to its sleep
\* (lines 173-191).
ApiListenFail(j) ==
    /\ svc = "api"
    /\ itask[j].pc = "run"
    /\ link[itask[j].cl] = "down"
    /\ connected' = ApiConnectedAfterLoss
    /\ FailAll
    /\ itask' = [itask EXCEPT ![j] = [pc |-> "sleep", cl |-> 0]]
    /\ UNCHANGED <<unitVars, svc, stopper, dup, client, lref, task, stale>>
    /\ UNCHANGED gpsVars
    /\ link' = Sweep(link, "unused")
    /\ subs' = Sweep(subs, FALSE)

\* Lines 104-112 of close(): the pending futures are failed, the table is
\* cleared and the client's __aexit__ is awaited.
CloseClear ==
    /\ FailAll
    /\ IF client # 0
       THEN /\ itask' = [itask EXCEPT ![0] = [pc |-> "aexit", cl |-> client]]
            /\ UNCHANGED <<connected, stopper>>
       ELSE /\ itask' = InitOver(0)
            /\ connected' = FALSE
            /\ stopper' = "closed"

\* close() on a service that is not connected returns at once (lines
\* 90-92); a listener task that sleeps in _handle_connection_error is left
\* alone.
ApiCloseNotConnected ==
    /\ svc = "api"
    /\ itask[0].pc = "none"
    /\ ~connected
    /\ stopper' = "closed"
    /\ UNCHANGED <<unitVars, svc, dup>>
    /\ UNCHANGED <<connVars, gpsVars, apiVars, reqVars>>

\* close() on a connected service (lines 89-102): the listener task is
\* cancelled and awaited; a task that is already over is not waited for.
ApiCloseBegin ==
    /\ svc = "api"
    /\ itask[0].pc = "none"
    /\ connected
    /\ IF lref # 0 /\ itask[lref].pc # "none"
       THEN /\ itask' = [InitOver(lref) EXCEPT ![0] = [pc |-> "cancelwait", cl |-> 0]]
            /\ UNCHANGED <<connected, pending, leaked, fut, ncompl>>
            /\ UNCHANGED <<unitVars, svc, stopper, dup, client, lref, task, stale>>
            /\ UNCHANGED gpsVars
            /\ link' = Sweep(IF itask[lref].pc = "aenter"
                             THEN [link EXCEPT ![itask[lref].cl] = "down"]
                             ELSE link, "unused")
            /\ subs' = Sweep(subs, FALSE)
       ELSE /\ CloseClear
            /\ UNCHANGED <<unitVars, svc, dup, client, link, subs, lref, task, stale>>
            /\ UNCHANGED gpsVars

\* The cancelled listener task is over: close() goes on.
ApiCloseClear ==
    /\ svc = "api"
    /\ itask[0].pc = "cancelwait"
    /\ CloseClear
    /\ UNCHANGED <<unitVars, svc, dup, client, link, subs, lref, task, stale>>
    /\ UNCHANGED gpsVars

\* __aexit__ returned: lines 113-116.
ApiCloseFinish ==
    /\ svc = "api"
    /\ itask[0].pc = "aexit"
    /\ link[itask[0].cl] = "up"
    /\ client' = 0
    /\ connected' = FALSE
    /\ itask' = InitOver(0)
    /\ stopper' = "closed"
    /\ UNCHANGED <<unitVars, svc, dup, lref>>
    /\ UNCHANGED <<gpsVars, reqVars>>
    /\ link' = Sweep([link EXCEPT ![itask[0].cl] = "down"], "unused")
    /\ subs' = Sweep([subs EXCEPT ![itask[0].cl] = FALSE], FALSE)

\* __aexit__ raised on a client whose connection was already lost: the
\* handler of line 118 logs, and lines 113-115 are skipped.
ApiCloseFailed ==
    /\ svc = "api"
    /\ itask[0].pc = "aexit"
    /\ link[itask[0].cl] # "up"
    /\ itask' = InitOver(0)
    /\ stopper' = "closed"
    /\ UNCHANGED <<unitVars, svc, dup, connected, client, lref>>
    /\ UNCHANGED <<gpsVars, reqVars>>
    /\ link' = Sweep(link, "unused")
    /\ subs' = Sweep(subs, FALSE)

\* get_device_realtime_info up to the await of publish, or to its end
\* when the send is rejected (lines 215-238).
ApiSend(t) ==
    /\ svc = "api"
    /\ task[t].pc = "idle"
    /\ IF RejectSend
       THEN /\ task' = [task EXCEPT ![t] = Rejected(t)]
            /\ UNCHANGED <<pending, leaked, fut, ncompl, stale>>
       ELSE Register(t)
    /\ UNCHANGED <<unitVars, svc, stopper, dup>>
    /\ UNCHANGED <<connVars, gpsVars, apiVars>>

NextApi ==
    \/ \E i \in ITasks : ApiInitBegin(i)
    \/ \E i \in ITasks : ApiAenterOk(i)
    \/ \E i \in ITasks : ApiAenterFail(i)
    \/ \E i \in ITasks : ApiSubscribeOk(i)
    \/ \E i \in ITasks : ApiSubscribeFail(i)
    \/ \E j \in LTasks : ApiListenerStart(j)
    \/ \E j \in LTasks, k \in 0..MaxTasks, b \in Bodies : ApiListen(j, k, b)
    \/ \E j \in LTasks : ApiListenFail(j)
    \/ ApiCloseNotConnected
    \/ ApiCloseBegin
    \/ ApiCloseClear
    \/ ApiCloseFinish
    \/ ApiCloseFailed
    \/ \E t \in Tasks : ApiSend(t)

NextGps ==
    \/ GpsInitialize
    \/ GpsStart
    \/ MgrStart
    \/ MgrCleanupDone
    \/ MgrAenterOk
    \/ MgrAenterFail
    \/ MgrSubscribeOk
    \/ MgrSubscribeFail
    \/ MgrListenFail
    \/ MgrBackoffDone
    \/ ScanWaitConnection
    \/ ScanWake
    \/ \E n \in 0..MaxTasks : ScanQueryDone(n)
    \/ ScanGatherDone
    \/ \E t \in Tasks : GpsTaskAcquire(t)
    \/ \E t \in Tasks : GpsSaveOk(t)
    \/ \E t \in Tasks : GpsSaveFail(t)
    \/ \E k \in 0..MaxTasks, b \in Bodies : GpsListen(k, b)
    \/ GpsStopBegin
    \/ GpsStopClose
    \/ GpsStopAexitOk
    \/ GpsStopAexitFail

NextCommon ==
    \/ \E c \in Clients : Drop(c)
    \/ \E t \in Tasks : TaskPublishOk(t)
    \/ \E t \in Tasks : TaskPublishFail(t)
    \/ \E t \in Tasks : TaskTimerFire(t)
    \/ \E t \in Tasks : TaskTimeoutResume(t)
    \/ \E t \in Tasks : TaskFutureDone(t)

Next == NextGps \/ NextApi \/ NextCommon

Spec == Init /\ [][Next]_vars

\* Each service on its own.
InitGps == Init /\ svc = "gps"
InitApi == Init /\ svc = "api"
SpecGps == InitGps /\ [][NextGps \/ NextCommon]_vars
SpecApi == InitApi /\ [][NextApi \/ NextCommon]_vars

\* Both services with a message stream that is not limited to the topics
\* of the subscription.
NextOffShape ==
    \/ \E sh \in OffShapes, k \in 0..MaxTasks, b \in Bodies :
          GpsListenOffShape(sh, k, b)
    \/ \E j \in LTasks, sh \in OffShapes, k \in 0..MaxTasks, b \in Bodies :
          ApiListenOffShape(j, sh, k, b)

SpecAnyTopic == Init /\ [][Next \/ NextOffShape]_vars

\* ---- the payload normalization on its own ---------------------------------
\* A decoded reply is a JSON object: a function from its keys to values.
\* Every reply here has a data block; 'timestap' and 'timestamp' may each be
\* there or not.
Replies ==
    UNION {[{"data"} \cup K -> 1..MaxStamp] : K \in SUBSET {"timestap", "timestamp"}}

\* A normalization that leaves the reply as it came.
NormalizeNothing(d) == d

\* `if 'timestap' in response_data and 'timestamp' not in response_data:
\*      response_data['timestamp'] = response_data['timestap']`
\* (gps 353-354, api 153-154).
Normalize(d) ==
    IF "timestap" \in DOMAIN d /\ "timestamp" \notin DOMAIN d
    THEN [k \in DOMAIN d \cup {"timestamp"} |->
             IF k = "timestamp" THEN d["timestap"] ELSE d[k]]
    ELSE d

\* json.loads has returned the reply (gps 351, api 150).
InitNormalize ==
    /\ svc \in {"gps", "api"}
    /\ MainInit
    /\ tbl = NoUnit /\ sc = NoUnit /\ bt = NoUnit /\ js = NoUnit
    /\ nz \in {[pc |-> "decoded", raw |-> d, cur |-> d, n |-> 0] : d \in Replies}

\* The two lines of the normalization are run on the reply.
NzApply ==
    /\ nz.pc = "decoded"
    /\ nz.n < MaxApply
    /\ nz' = [nz EXCEPT !.cur = Normalize(@), !.n = @ + 1]
    /\ UNCHANGED <<mainVars, tbl, sc, bt, js>>

SpecNormalize == InitNormalize /\ [][NzApply]_vars

\* ---- the pending table on its own -----------------------------------------
\* _pending_requests with an id generator that may return an id again: table
\* maps an id to the future stored under it (0: no entry), futures are
\* numbered in the order they are created, waiting holds the futures whose
\* caller is still waiting, res is the outcome of the last registration.
InitTable ==
    /\ svc \in {"gps", "api"}
    /\ MainInit
    /\ nz = NoUnit /\ sc = NoUnit /\ bt = NoUnit /\ js = NoUnit
    /\ tbl = [pc |-> "table", table |-> [i \in 1..MaxIds |-> 0], made |-> 0,
              waiting |-> {}, res |-> "none"]

\* `future = asyncio.Future(); self._pending_requests[session_id] = future`
\* (gps 308-309, api 234-235): a plain item assignment, no test for the key.
TblRegister(id) ==
    /\ tbl.pc = "table"
    /\ tbl.made < MaxFutures
    /\ tbl' = [tbl EXCEPT !.table[id] = tbl.made + 1,
                          !.made = @ + 1,
                          !.waiting = @ \cup {tbl.made + 1},
                          !.res = "ok"]
    /\ UNCHANGED <<mainVars, nz, sc, bt, js>>

\* The listener pops the entry of the id and completes its future
\* (gps 341-356, api 136-158).
TblResolve(id) ==
    /\ tbl.pc = "table"
    /\ tbl.table[id] # 0
    /\ tbl' = [tbl EXCEPT !.table[id] = 0, !.waiting = @ \ {tbl.table[id]}]
    /\ UNCHANGED <<mainVars, nz, sc, bt, js>>

SpecTable ==
    InitTable /\ [][\E id \in 1..MaxIds : TblRegister(id) \/ TblResolve(id)]_vars

\* ---- the tick loop and its query on their own -------------------------------
\* A row of the database as the query sees it: the status of the journey
\* session, where now lies with respect to its start_time..end_time, and
\* whether a device is attached to its vehicle (Device.vehicle_id is unique:
\* at most one).
Rows == [status : {"active", "completed"}, win : {"before", "in", "after"},
         dev : BOOLEAN]

\* The query with the time window left out.
ActiveSessionsAnyTime(db) ==
    {s \in 1..MaxRows : db[s].status = "active" /\ db[s].dev}

\* select ... join Vehicle join Device where status == 'active' and
\* start_time <= now and end_time >= now (lines 207-224).
ActiveSessions(db) ==
    {s \in 1..MaxRows : db[s].status = "active" /\ db[s].win = "in" /\ db[s].dev}

\* The loop is at the top of `while self._running`, connected; polled is
\* active_sessions, prev its value in the tick before, dur the time the work
\* of the tick has taken, slept the sleep taken after the last tick.
InitScan ==
    /\ svc = "gps"
    /\ MainInit
    /\ nz = NoUnit /\ tbl = NoUnit /\ bt = NoUnit /\ js = NoUnit
    /\ sc \in {[pc |-> "query", db |-> d, polled |-> {}, prev |-> {}, dur |-> 0,
                 slept |-> 0] : d \in [1..MaxRows -> Rows]}

\* Between two steps of the loop a row changes: a journey is completed or
\* reactivated, time passes a boundary of its window, a device is attached
\* or detached.
ScDbChange(s, row) ==
    /\ sc.pc \in {"query", "process", "sleep"}
    /\ sc.db[s] # row
    /\ sc' = [sc EXCEPT !.db[s] = row]
    /\ UNCHANGED <<mainVars, nz, tbl, bt, js>>

\* `active_sessions = await self._get_active_journey_sessions()` (line 184):
\* the rows of the query, or [] when the query raised (lines 241-243); with
\* no session the loop goes to its sleep (lines 186-187).
ScQuery(ok, d) ==
    /\ sc.pc = "query"
    /\ LET found == IF ok THEN ActiveSessions(sc.db) ELSE {}
       IN  sc' = [sc EXCEPT !.pc = IF found = {} THEN "sleep" ELSE "process",
                            !.prev = sc.polled,
                            !.polled = found,
                            !.dur = d]
    /\ UNCHANGED <<mainVars, nz, tbl, bt, js>>

\* `await self._process_sessions(active_sessions)` (line 190) returns after
\* d more units of time.
ScProcess(d) ==
    /\ sc.pc = "process"
    /\ sc.dur + d <= MaxWork
    /\ sc' = [sc EXCEPT !.pc = "sleep", !.dur = @ + d]
    /\ UNCHANGED <<mainVars, nz, tbl, bt, js>>

\* `await asyncio.sleep(self.scan_interval)` (line 192), whatever the work
\* took, then the next tick.
ScSleep ==
    /\ sc.pc = "sleep"
    /\ sc' = [sc EXCEPT !.pc = "query", !.slept = scan_interval]
    /\ UNCHANGED <<mainVars, nz, tbl, bt, js>>

SpecScan ==
    InitScan /\ [][\/ \E s \in 1..MaxRows, row \in Rows : ScDbChange(s, row)
                   \/ \E ok \in BOOLEAN, d \in 0..1 : ScQuery(ok, d)
                   \/ \E d \in 0..MaxWork : ScProcess(d)
                   \/ ScSleep]_vars

\* ---- the batch of the api on its own ----------------------------------------
\* get_multiple_devices_realtime_info(device_imeis, max_concurrent): imeis is
\* the list asked for, st[i] the place of fetch_single_device(imeis[i]) (wait:
\* before the semaphore, flight: inside get_device_realtime_info, done), how[i]
\* the way its request ended, results[i] the pair it returned, out the map the
\* call returned.  A response is named by the request that got it, None is 0.
RECURSIVE CollectSucceeded(_, _)
\* A result loop that enters only the requests that got a response.
CollectSucceeded(results, n) ==
    IF n = 0 THEN <<>>
    ELSE LET d == CollectSucceeded(results, n - 1)
             imei == results[n][1]
             data == results[n][2]
         IN  IF data = 0 THEN d
             ELSE [k \in DOMAIN d \cup {imei} |-> IF k = imei THEN data ELSE d[k]]

RECURSIVE Collect(_, _)
\* `realtime_data = {}; for result in results: imei, data = result;
\*  realtime_data[imei] = data` over the first n results (lines 289-297).
Collect(results, n) ==
    IF n = 0 THEN <<>>
    ELSE LET d == Collect(results, n - 1)
             imei == results[n][1]
             data == results[n][2]
         IN  [k \in DOMAIN d \cup {imei} |-> IF k = imei THEN data ELSE d[k]]

\* The call has made its semaphore and its coroutines (lines 270-283).
InitBatch ==
    /\ svc = "api"
    /\ MainInit
    /\ nz = NoUnit /\ tbl = NoUnit /\ sc = NoUnit /\ js = NoUnit
    /\ bt \in {[pc |-> "gather", imeis |-> l,
                 st |-> [i \in DOMAIN l |-> "wait"],
                 how |-> [i \in DOMAIN l |-> "none"],
                 results |-> [i \in DOMAIN l |-> <<l[i], 0>>],
                 out |-> <<>>] :
                l \in UNION {[1..n -> 1..MaxImeis] : n \in 0..MaxBatch}}

\* `async with semaphore:` (line 273) is entered while fewer than
\* max_concurrent coroutines are inside.
BtAcquire(i) ==
    /\ bt.pc = "gather"
    /\ i \in DOMAIN bt.imeis
    /\ bt.st[i] = "wait"
    /\ Cardinality({j \in DOMAIN bt.imeis : bt.st[j] = "flight"}) < batch_concurrent
    /\ bt' = [bt EXCEPT !.st[i] = "flight"]
    /\ UNCHANGED <<mainVars, nz, tbl, sc, js>>

\* get_device_realtime_info returns the response or raises one of its three
\* errors; fetch_single_device returns (imei, result) or, from its
\* `except Exception`, (imei, None) (lines 274-279).
BtFinish(i, o) ==
    /\ bt.pc = "gather"
    /\ i \in DOMAIN bt.imeis
    /\ bt.st[i] = "flight"
    /\ bt' = [bt EXCEPT !.st[i] = "done",
                        !.how[i] = o,
                        !.results[i] = <<bt.imeis[i], IF o = "result" THEN i ELSE 0>>]
    /\ UNCHANGED <<mainVars, nz, tbl, sc, js>>

\* gather has every result (line 286); the map is built and returned
\* (lines 289-299).
BtReturn ==
    /\ bt.pc = "gather"
    /\ \A i \in DOMAIN bt.imeis : bt.st[i] = "done"
    /\ bt' = [bt EXCEPT !.pc = "returned",
                        !.out = Collect(bt.results, Len(bt.imeis))]
    /\ UNCHANGED <<mainVars, nz, tbl, sc, js>>

SpecBatch ==
    InitBatch /\ [][\/ \E i \in 1..MaxBatch : BtAcquire(i)
                    \/ \E i \in 1..MaxBatch, o \in {"result", "DeviceTimeoutError", "MQTTConnectionError",
                                                 "InvalidResponseError"} :
                          BtFinish(i, o)
                    \/ BtReturn]_vars

\* ---- the journey sessions of the api on their own -------------------------
\* A row of journey_sessions: its status, vehicle, driver and its window
\* start_time (a) .. end_time (b); NoRow is an id not yet given out.  A
\* request is between its check and its write (pc = "checked") or not in
\* progress.
NoRow == [status |-> "none", v |-> 0, d |-> 0, a |-> 0, b |-> 0]

NoReq == [op |-> "none", pc |-> "idle", s |-> 0, row |-> NoRow]

\* `new_start < existing_end AND new_end > existing_start` among the
\* pending and active rows of the same vehicle (lines 74-86) or the same
\* driver (94-106), and the driver's active rows (59-66).
CreateRefused(rows, n) ==
    \E s \in 1..MaxSessions :
        \/ /\ rows[s].status \in {"pending", "active"}
           /\ rows[s].v = n.v \/ rows[s].d = n.d
           /\ n.a < rows[s].b /\ n.b > rows[s].a
        \/ rows[s].status = "active" /\ rows[s].d = n.d

InitJourney ==
    /\ svc = "api"
    /\ MainInit
    /\ nz = NoUnit /\ tbl = NoUnit /\ sc = NoUnit /\ bt = NoUnit
    /\ js = [pc |-> "db", rows |-> [s \in 1..MaxSessions |-> NoRow],
             reqs |-> [r \in 1..MaxReqs |-> NoReq]]

\* create_journey_session up to its insert (lines 34-111): the schema asks
\* for end_time > start_time; a refused request is over with 400.
JsCreateCheck(r, n) ==
    /\ js.pc = "db"
    /\ js.reqs[r] = NoReq
    /\ n.a < n.b
    /\ ~CreateRefused(js.rows, n)
    /\ js' = [js EXCEPT !.reqs[r] = [op |-> "create", pc |-> "checked", s |-> 0,
                                     row |-> n]]
    /\ UNCHANGED <<mainVars, nz, tbl, sc, bt>>

\* crud_journey_sessions.create (line 114): the row gets the next id.
JsCreateInsert(r) ==
    /\ js.pc = "db"
    /\ js.reqs[r].op = "create"
    /\ \E s \in 1..MaxSessions :
          /\ js.rows[s] = NoRow
          /\ \A q \in 1..MaxSessions : q < s => js.rows[q] # NoRow
          /\ js' = [js EXCEPT !.rows[s] = js.reqs[r].row, !.reqs[r] = NoReq]
    /\ UNCHANGED <<mainVars, nz, tbl, sc, bt>>

\* start_journey_session / end_journey_session up to the update (lines
\* 505-520, 551-566): the row is read and its status compared; with another
\* status the request is over with 400.
JsStatusCheck(r, op, s) ==
    /\ js.pc = "db"
    /\ js.reqs[r] = NoReq
    /\ js.rows[s] # NoRow
    /\ js.rows[s].status = (IF op = "start" THEN "pending" ELSE "active")
    /\ js' = [js EXCEPT !.reqs[r] = [op |-> op, pc |-> "checked", s |-> s,
                                     row |-> NoRow]]
    /\ UNCHANGED <<mainVars, nz, tbl, sc, bt>>

\* `update(JourneySession).where(JourneySession.id == session_id).values(
\* status='active', ...)` (lines 522-530) and commit.
JsStartWrite(r) ==
    /\ js.pc = "db"
    /\ js.reqs[r].op = "start"
    /\ js' = [js EXCEPT !.rows[js.reqs[r].s].status = "active", !.reqs[r] = NoReq]
    /\ UNCHANGED <<mainVars, nz, tbl, sc, bt>>

\* `... .values(status='completed', end_time=datetime.now(...))` (lines
\* 568-576) and commit.
JsEndWrite(r, now) ==
    /\ js.pc = "db"
    /\ js.reqs[r].op = "end"
    /\ js' = [js EXCEPT !.rows[js.reqs[r].s].status = "completed",
                        !.rows[js.reqs[r].s].b = now,
                        !.reqs[r] = NoReq]
    /\ UNCHANGED <<mainVars, nz, tbl, sc, bt>>

\* end_expired_journeys: one UPDATE ... WHERE status == 'active' AND
\* end_time < now (journey_scheduler.py 17-23).
JsExpire(now) ==
    /\ js.pc = "db"
    /\ \E s \in 1..MaxSessions : js.rows[s].status = "active" /\ js.rows[s].b < now
    /\ js' = [js EXCEPT !.rows = [s \in 1..MaxSessions |->
                 IF js.rows[s].status = "active" /\ js.rows[s].b < now
                 THEN [js.rows[s] EXCEPT !.status = "completed"]
                 ELSE js.rows[s]]]
    /\ UNCHANGED <<mainVars, nz, tbl, sc, bt>>

\* update_journey_session (lines 623-627): the fields given are written,
\* status (any of the three here, "keep": not given) and end_time (0: not
\* given), with no check.
JsUpdate(s, st, e) ==
    /\ js.pc = "db"
    /\ js.rows[s] # NoRow
    /\ js' = [js EXCEPT !.rows[s].status = IF st = "keep" THEN @ ELSE st,
                        !.rows[s].b = IF e = 0 THEN @ ELSE e]
    /\ js'.rows # js.rows
    /\ UNCHANGED <<mainVars, nz, tbl, sc, bt>>

NewRows == [status : {"pending"}, v : 1..MaxOwners, d : 1..MaxOwners,
            a : 1..MaxTime, b : 1..MaxTime]

NextJourney ==
    \/ \E r \in 1..MaxReqs, n \in NewRows : JsCreateCheck(r, n)
    \/ \E r \in 1..MaxReqs : JsCreateInsert(r)
    \/ \E r \in 1..MaxReqs, op \in {"start", "end"}, s \in 1..MaxSessions :
          JsStatusCheck(r, op, s)
    \/ \E r \in 1..MaxReqs : JsStartWrite(r)
    \/ \E r \in 1..MaxReqs, now \in 1..MaxTime : JsEndWrite(r, now)
    \/ \E now \in 1..MaxTime : JsExpire(now)
    \/ \E s \in 1..MaxSessions, e \in 0..MaxTime,
          st \in {"keep", "pending", "active", "completed"} : JsUpdate(s, st, e)

\* The routes of the journey sessions, each request its own coroutine and
\* database session, with the expiry job.
SpecJourney == InitJourney /\ [][NextJourney]_vars

\* The event loop keeps running: a coroutine that can go on is resumed, a
\* timer that is due fires. One step of the connection manager task, one
\* step of the tasks of a tick.
MgrStep ==
    \/ MgrStart
    \/ MgrCleanupDone
    \/ MgrAenterOk
    \/ MgrAenterFail
    \/ MgrSubscribeOk
    \/ MgrSubscribeFail
    \/ MgrListenFail
    \/ MgrBackoffDone

TickStep ==
    \/ ScanGatherDone
    \/ \E t \in Tasks :
          \/ GpsTaskAcquire(t)
          \/ TaskPublishOk(t)
          \/ TaskPublishFail(t)
          \/ TaskTimerFire(t)
          \/ TaskTimeoutResume(t)
          \/ TaskFutureDone(t)
          \/ GpsSaveOk(t)
          \/ GpsSaveFail(t)

\* The gps service under that scheduling. Nothing is assumed of the broker,
\* the devices, the database or the callers of start_processing and stop.
FairSpecGps ==
    /\ SpecGps
    /\ WF_vars(MgrStep)
    /\ WF_vars(TickStep)

\* One step of a listener task of the api: the listener itself, its
\* handling of a connection loss and the initialize() it calls.
ApiListenerStep ==
    \E j \in LTasks :
        \/ ApiListenerStart(j)
        \/ ApiListenFail(j)
        \/ ApiInitBegin(j)
        \/ ApiAenterOk(j)
        \/ ApiAenterFail(j)
        \/ ApiSubscribeOk(j)
        \/ ApiSubscribeFail(j)

\* The api service with an event loop that keeps running its listener
\* task. Nothing is assumed of the broker, the devices or the callers.
FairSpecApi == SpecApi /\ WF_vars(ApiListenerStep)

\* ==== properties ==========================================================

\* ---- C1 -------------------------------------------------------------------
\* C1: once a send call has returned, whatever its outcome (reply, decode
\* error, timeout, publish raising), its correlation id is no longer a key
\* of the pending table: every key of the table belongs to a call that is
\* still between its registration and its return.
C1_NoKeyAfterReturn ==
    /\ ~leaked
    /\ \A t \in pending : InFlight(t)

\* A gps call has returned None after publish raised, and its key is still
\* in the table.
C1_KeyLeftBehind ==
    /\ svc = "gps"
    /\ leaked
    /\ \E t \in Tasks : task[t].pc = "done" /\ task[t].out = "None"

\* ---- C2 -------------------------------------------------------------------
\* C2: under every interleaving of the listener, the caller's timeout,
\* connection-loss handling and close, the future of a registered call is
\* completed (result, error or cancellation) at most once.
C2_CompletedAtMostOnce == \A t \in Tasks : ncompl[t] <= 1

\* The timeout of a call has fired and cancelled its future, and the
\* listener has then handled a reply carrying the id of that call: the
\* entry is gone, the future was completed once.
C2_ReplyAfterCancel ==
    \E t \in Tasks :
        /\ svc = "gps"
        /\ task[t].pc = "tmo"
        /\ fut[t] = "cancelled"
        /\ t \notin pending
        /\ ncompl[t] = 1

\* ---- C3 -------------------------------------------------------------------
\* The listener handles one message whose topic carries the id of call k
\* (k = 0: of a call that has timed out and returned).
ListenerHandles(k) ==
    \/ \E b \in Bodies : GpsListen(k, b)
    \/ \E j \in LTasks, b \in Bodies : ApiListen(j, k, b)

\* The timeout of the request with the id of k has already fired.
TimeoutFired(k) == k = 0 \/ task[k].pc = "tmo"

\* C3: a reply carrying the id of a request whose timeout has already fired
\* is delivered to no caller: the listener completes no future, changes no
\* call, leaves every other entry of the table as it was and keeps running.
C3_LateReplyDropped ==
    [][\A k \in 0..MaxTasks :
          (TimeoutFired(k) /\ ListenerHandles(k)) =>
              /\ fut' = fut
              /\ ncompl' = ncompl
              /\ task' = task
              /\ pending' \ {k} = pending \ {k}
              /\ leaked' = leaked
              /\ mgr' = mgr
              /\ itask' = itask]_vars

\* The listener has dropped the reply to a call that had timed out and
\* returned.
C3_LateReplySeen == stale = "dropped"

\* ---- C4 -------------------------------------------------------------------
\* C4: in the polling service, when the listener's message stream fails
\* while requests are pending, every pending future is failed with a
\* connection-lost error and removed from the table before the
\* reconnection loop begins.
C4_PendingFailedOnStreamFailure ==
    [][MgrListenFail =>
          /\ pending' = {}
          /\ \A t \in pending : fut[t] = "pending" => fut'[t] = "conn_err"]_vars

\* The reconnection loop has begun while a caller still waits on a future
\* nobody has completed, its entry still in the table.
C4_CallerLeftWaiting ==
    /\ svc = "gps"
    /\ mgr.pc = "backoff"
    /\ \E t \in pending : task[t].pc = "wait" /\ fut[t] = "pending"

\* ---- C5 -------------------------------------------------------------------
\* C5: in the on-demand service, when the listener's message stream raises,
\* _handle_connection_error marks the service disconnected, fails every
\* pending future that is not done with MQTTConnectionError and empties the
\* table, all before its reconnection wait starts; a caller waiting on such
\* a future can only return, and returns MQTTConnectionError, not
\* DeviceTimeoutError.
C5_ConnectionErrorFailsPending ==
    [][/\ \A j \in LTasks :
             ApiListenFail(j) =>
                 /\ ~connected'
                 /\ pending' = {}
                 /\ ~leaked'
                 /\ \A t \in pending : fut[t] = "pending" => fut'[t] = "conn_err"
                 /\ \A t \in Tasks : fut[t] # "pending" => fut'[t] = fut[t]
                 /\ itask'[j].pc = "sleep"
       /\ \A t \in Tasks :
             (fut[t] = "conn_err" /\ task[t].pc = "wait" /\ task'[t] # task[t]) =>
                 /\ task'[t].pc = "idle"
                 /\ task'[t].out = "MQTTConnectionError"]_vars

\* The handler is in its reconnection wait, and a caller that was waiting
\* finds its future failed with the connection error.
C5_CallerFailedBeforeWait ==
    /\ svc = "api"
    /\ \E j \in LTasks : itask[j].pc = "sleep"
    /\ ~connected
    /\ \E t \in Tasks : task[t].pc = "wait" /\ fut[t] = "conn_err"

\* ---- C6 -------------------------------------------------------------------
\* Scheduler requests in flight: entry registered, call not yet returned.
RequestsInFlight == {t \in Tasks : InFlight(t)}

\* C6: with the ceiling N = MAX_CONCURRENT_DEVICES and any number of active
\* sessions, the number of scheduler requests in flight never exceeds N.
C6_InFlightAtMostN == Cardinality(RequestsInFlight) <= max_concurrent

\* More sessions than slots: N requests are in flight and another session
\* of the tick waits for a slot.
C6_CeilingReached ==
    /\ svc = "gps"
    /\ Cardinality(RequestsInFlight) = max_concurrent
    /\ \E u \in Tasks : task[u].pc = "sem"

\* ---- C7 -------------------------------------------------------------------
\* Sessions that hold a slot of the tick's semaphore: from the registration
\* of their request to the end of their save.
SlotHolders == {t \in Tasks : task[t].pc \in {"pub", "wait", "tmo", "save"}}

\* The poll of session t ends in this step with a failure.
PollFails(t) ==
    /\ task[t].pc \in {"sem", "pub", "wait", "tmo", "save"}
    /\ task'[t].pc = "done"
    /\ task'[t].out \in {"None", "store_failed"}

\* C7: within one tick, the failure of a session's poll (timeout, not
\* connected, decode error, error while storing) never prevents another
\* session of the tick from being requested and, when its device replies in
\* time, stored: a session that is over holds no slot, the step in which a
\* poll fails changes nothing of another session, and a session whose reply
\* has arrived goes on to the save, which only its own store can fail (all
\* this while the tick goes on, that is, in the steps that do not stop it).
C7_FailureIsolated ==
    /\ [](scan = "gather" => sem + Cardinality(SlotHolders) = max_concurrent)
    /\ [][\A t \in Tasks : scan' = "gather" =>
            /\ PollFails(t) =>
                  \A u \in Tasks \ {t} :
                      /\ task'[u] = task[u]
                      /\ fut'[u] = fut[u]
                      /\ (u \in pending') = (u \in pending)
            /\ (task[t].pc = "wait" /\ IsResult(fut[t]) /\ task'[t] # task[t]) =>
                  task'[t].pc = "save"
            /\ (task[t].pc = "save" /\ task'[t] # task[t]) =>
                  task'[t].pc = "done" /\ task'[t].out \in {"stored", "store_failed"}]_vars

\* One session of the tick has failed, and another one, requested after
\* that, has had its reply and is being stored.
C7_StoredAfterFailure ==
    /\ svc = "gps"
    /\ scan = "gather"
    /\ \E t, u \in Tasks :
          /\ task[t].pc = "done" /\ task[t].out = "None"
          /\ task[u].pc = "save"

\* ---- C8 -------------------------------------------------------------------
\* C8: the connected flag becomes True only after the subscription to the
\* reply topics is established: in no reachable state is the service marked
\* connected, with its current client's connection up, while that client
\* has no subscription.
C8_ConnectedImpliesSubscribed ==
    (connected /\ client # 0 /\ link[client] = "up") => subs[client]

\* A request was published and is awaited while the service is marked
\* connected and the current connection has no subscription.
C8_PublishedUnsubscribed ==
    /\ connected
    /\ client # 0
    /\ link[client] = "up"
    /\ ~subs[client]
    /\ \E t \in Tasks : task[t].pc = "wait" /\ fut[t] = "pending"

\* ---- C9 -------------------------------------------------------------------
\* Task t issues a send in this step.
SendIssued(t) == ApiSend(t) \/ GpsTaskAcquire(t)

\* C9: a send issued while the service is not connected is rejected at
\* once: no entry is registered, nothing is published, and the table, the
\* futures and the connection state are left as they were.
C9_RejectedWhenNotConnected ==
    [][\A t \in Tasks :
          (SendIssued(t) /\ ~connected) =>
              /\ task'[t].pc \in {"idle", "done"}
              /\ task'[t].out = RejectOutcome
              /\ task'[t].cl = 0
              /\ pending' = pending
              /\ leaked' = leaked
              /\ fut' = fut
              /\ connected' = connected
              /\ client' = client
              /\ link' = link
              /\ subs' = subs]_vars

\* An API call was rejected on a service that was never initialized.
C9_RejectedBeforeInitialize ==
    /\ svc = "api"
    /\ client = 0
    /\ lref = 0
    /\ TableEmpty
    /\ \E t \in Tasks : task[t].pc = "idle" /\ task[t].out = "MQTTConnectionError"

\* ---- C10 ------------------------------------------------------------------
\* C10: when the timeout of get_device_realtime_info has fired, the call
\* fails with DeviceTimeoutError and with nothing else, its own id is absent
\* from the table right after, and every other entry and future is left
\* untouched.
C10_TimeoutOnlyOwnEntry ==
    [][\A t \in Tasks :
          (task[t].pc = "tmo" /\ task'[t] # task[t]) =>
              /\ task'[t].pc = "idle"
              /\ task'[t].out = "DeviceTimeoutError"
              /\ t \notin pending'
              /\ \A u \in Tasks \ {t} :
                    /\ (u \in pending') = (u \in pending)
                    /\ fut'[u] = fut[u]
                    /\ ncompl'[u] = ncompl[u]
                    /\ task'[u] = task[u]]_vars

\* A call has failed with DeviceTimeoutError while another call is still
\* waiting, its entry in the table and its future not done.
C10_OtherStillPending ==
    /\ svc = "api"
    /\ \E t, u \in Tasks :
          /\ task[t].pc = "idle" /\ task[t].out = "DeviceTimeoutError"
          /\ u \in pending /\ task[u].pc = "wait" /\ fut[u] = "pending"

\* ---- C11 ------------------------------------------------------------------
\* C11: the connection manager makes at most max_retries attempts in a
\* reconnection cycle, and once they have all failed it has stopped: in no
\* later step does it move, replace the client or start a connection.
C11_NoAttemptAfterExhaustion ==
    /\ [](mgr.attempt <= max_retries)
    /\ [][mgr.pc = "exhausted" =>
             /\ mgr' = mgr
             /\ client' = client
             /\ \A c \in Clients : link'[c] = "new" => link[c] = "new"]_vars

\* All attempts of a cycle have failed and the tick loop has run on since.
C11_Exhausted ==
    /\ mgr.pc = "exhausted"
    /\ mgr.attempt = max_retries
    /\ scan = "sleep"

\* ---- C12 ------------------------------------------------------------------
\* C12: when all reconnection attempts have failed the exhaustion is
\* visible from outside the manager task: the processor no longer reports
\* itself as running (is_running()).
C12_ExhaustionStopsProcessor == mgr.pc = "exhausted" => ~running

\* The manager has given up, and the processor reports itself as running
\* while its tick loop pauses on the missing connection.
C12_RunningAfterExhaustion ==
    /\ mgr.pc = "exhausted"
    /\ running
    /\ ~connected
    /\ scan = "sleep"

\* ---- C13 ------------------------------------------------------------------
\* C13: in a reconnection cycle the delay slept before attempt k is
\* retry_delay * 2^(k-1) for k = 1..max_retries; the delays strictly
\* increase from one attempt to the next, and a new cycle starts again at
\* attempt 1.
C13_BackoffDelays ==
    /\ [](mgr.pc = "backoff" =>
             /\ mgr.attempt \in 1..max_retries
             /\ mgr.delay = retry_delay * 2 ^ (mgr.attempt - 1))
    /\ [][(mgr'.pc = "backoff" /\ mgr.pc # "backoff") =>
             IF mgr.retry
             THEN mgr'.attempt = mgr.attempt + 1 /\ mgr'.delay > mgr.delay
             ELSE mgr'.attempt = 1]_vars

\* The manager sleeps before the last attempt of a cycle.
C13_LastBackoff ==
    /\ mgr.pc = "backoff"
    /\ mgr.attempt = max_retries
    /\ mgr.attempt > 1

\* ---- C15 ------------------------------------------------------------------
\* C15: stop() stops the tick loop first, lets every request in flight
\* finish by its reply or its own timeout without cancelling it, and closes
\* the connection only after that: the step that stops the loop changes no
\* session task that has a request in flight, and the connection is not
\* being closed while a request is in flight.
C15_StopDrainsInFlight ==
    /\ [](stopper = "aexit" => \A t \in Tasks : ~InFlight(t))
    /\ [][GpsStopBegin =>
             \A t \in Tasks : InFlight(t) => task'[t] = task[t]]_vars

\* stop() is closing the connection after it has cancelled a request that
\* was in flight, whose key is still in the table.
C15_CancelledByStop ==
    /\ svc = "gps"
    /\ stopper = "aexit"
    /\ leaked
    /\ \E t \in Tasks : task[t].pc = "done" /\ task[t].out = "cancelled"

\* ---- C20 ------------------------------------------------------------------
\* C20: starting is idempotent: whatever initialize() and start_processing()
\* calls are made, no tick-loop task and no connection-manager task is
\* created while one is alive, and a start_processing() call on a running
\* processor changes no state.
C20_StartIdempotent ==
    /\ [](dup = {})
    /\ [][(GpsStart /\ running) => UNCHANGED vars]_vars
    /\ [][(GpsInitialize /\ ManagerAlive) => UNCHANGED vars]_vars

\* The processor is running with its manager and its tick loop at work,
\* where a further initialize() or start_processing() call can be made.
C20_RunningWithBothTasks ==
    /\ svc = "gps"
    /\ running
    /\ mgr.pc = "listen"
    /\ scan = "gather"
    /\ dup = {}


\* ---- C16 -----------------------------------------------------------------
\* The session's task is busy with its poll.
Polling(t) == task[t].pc \in {"sem", "pub", "wait", "tmo", "save"}

\* The one call of the persistence sink that a well-formed reply to
\* session t leads to.
StoreCall(t) == [session |-> t, imei |-> MaxTasks + t, payload |-> "data"]

\* C16: for each session polled in a tick the persistence sink is called
\* exactly once when the request was resolved with a well-formed reply, with
\* the data block of that reply (and nothing else of it), the id of the
\* session and the IMEI of its device; it is called zero times when the
\* request failed or timed out, and never more than once.
C16_OneStorePerGoodReply ==
    /\ [](\A t \in Tasks :
            /\ Len(task[t].sink) <= 1
            /\ (task[t].out = "None" => task[t].sink = <<>>)
            /\ (task[t].pc \in {"sem", "pub", "wait", "tmo"} => task[t].sink = <<>>)
            /\ (task[t].out \in {"stored", "store_failed"} => Len(task[t].sink) = 1))
    /\ [][\A t \in Tasks :
            /\ (task[t].pc = "wait" /\ fut[t] = "result" /\ task'[t].pc = "save") =>
                  task'[t].sink = <<StoreCall(t)>>
            /\ (task[t].pc = "save" /\ task'[t].pc = "done") =>
                  task'[t].sink = task[t].sink]_vars

\* One session of a tick was stored from a well-formed reply while another
\* one of the same tick timed out and left nothing.
C16_StoredAndSilent ==
    /\ svc = "gps"
    /\ \E t, u \in Tasks :
          /\ task[t].out = "stored" /\ task[t].sink = <<StoreCall(t)>>
          /\ task[u].pc = "done" /\ task[u].out = "None" /\ task[u].pubs = 1
          /\ task[u].sink = <<>>

\* ---- C17 -----------------------------------------------------------------
\* C17: a send that was accepted publishes its request exactly once and
\* never again, and a tick sends at most once for a session; a session whose
\* poll failed has nothing stored for that tick.
C17_OnePublishOneSend ==
    /\ [](\A t \in Tasks :
            /\ task[t].pubs <= 1
            /\ task[t].sends <= 1
            /\ (InFlight(t) => task[t].pubs = 1)
            /\ (task[t].pc = "save" => task[t].pubs = 1)
            /\ (svc = "gps" /\ task[t].pc = "done" /\ task[t].out = "None" =>
                    task[t].sink = <<>>))
    /\ [][\A t \in Tasks :
            /\ task'[t].pubs > task[t].pubs =>
                  ~InFlight(t) /\ task'[t].pc = "pub" /\ task'[t].pubs = 1
            /\ (InFlight(t) \/ task[t].pc = "save") =>
                  task'[t].pubs = task[t].pubs]_vars

\* A silent device: its session was sent to once, published once, timed out
\* and is over for this tick with nothing stored.
C17_FailedSessionAbsent ==
    /\ svc = "gps"
    /\ scan = "gather"
    /\ stale # "none"
    /\ \E t \in Tasks :
          /\ task[t].pc = "done" /\ task[t].out = "None"
          /\ task[t].pubs = 1 /\ task[t].sends = 1 /\ task[t].sink = <<>>

\* ---- C18 -----------------------------------------------------------------
\* C18: every task of a tick is over before the sleep between two ticks
\* begins, so ticks do not overlap: while the loop sleeps or runs the query
\* of the next tick no session task is running and no request is in flight;
\* a session task runs only while the loop awaits the gather of its tick,
\* and the gather is left for the sleep of line 192 only.
C18_TicksNeverOverlap ==
    /\ [](\A t \in Tasks : Polling(t) => scan = "gather")
    /\ [](scan \in {"sleep", "query"} =>
            \A t \in Tasks : ~InFlight(t) /\ fut[t] # "pending")
    /\ [][(scan = "gather" /\ scan' # "gather" /\ running') => scan' = "sleep"]_vars

\* The query of a tick runs after a tick in which a request timed out.
C18_QueryAfterTick == svc = "gps" /\ scan = "query" /\ stale # "none"


\* ---- C14 -----------------------------------------------------------------
\* C14: after a connection drop, once an attempt of the retry loop has
\* succeeded the manager gets to the state where it is connected and the
\* listener consumes the replies (unless the processor is stopped first),
\* and a request issued from then on whose device replies is resolved with
\* that reply.
C14_ReconnectResumes ==
    mgr.won ~> (mgr.pc = "listen" \/ ~running)

\* The connection made by the successful attempt has been closed again and
\* a new client is being connected.
C14_ReconnectedTwice ==
    /\ svc = "gps" /\ mgr.won /\ running
    /\ mgr.pc = "aenter" /\ link[client] = "new" /\ ~connected

\* ---- C19 -----------------------------------------------------------------
\* C19: with a ceiling of at least one and every request ending by its
\* reply, an error or its timeout, the fan-out of a tick terminates: the
\* gather is left, for the loop's next sleep or because the processor was
\* stopped, also when every device of the tick is silent.
C19_TickTerminates ==
    (scan = "gather") ~> (scan \in {"sleep", "ended"})

\* Every session of the tick was sent, got no reply and timed out; all the
\* tasks are over and the gather can return.
C19_AllSilentAllOver ==
    /\ svc = "gps" /\ scan = "gather" /\ running
    /\ \A t \in Tasks :
          /\ task[t].pc = "done" /\ task[t].out = "None"
          /\ task[t].pubs = 1 /\ ncompl[t] = 0
    /\ stale = "timedout" /\ ~leaked

\* ---- C21 ----------------------------------------------------------------
\* Reply payloads that cannot be decoded: bytes that are not JSON, and JSON
\* that fails the structural validation of a reply.
Undecodable == {"garbage", "partial"}

\* The listener handles a message with payload b for the id of call k.
HandlesBody(k, b) ==
    \/ GpsListen(k, b)
    \/ \E j \in LTasks : ApiListen(j, k, b)

\* C21: when the reply for a pending id cannot be decoded (invalid JSON or
\* failed structural validation) the listener resolves the entry at once
\* with a decode error and keeps running; the waiting caller then fails with
\* that error (InvalidResponseError in the on-demand service, no result in
\* the polling service) and not by its timeout.
C21_DecodeErrorFailsCaller ==
    /\ [][\A k \in Tasks, b \in Undecodable :
            (HandlesBody(k, b) /\ k \in pending /\ fut[k] = "pending") =>
                /\ fut'[k] = "decode_err"
                /\ k \notin pending'
                /\ mgr' = mgr
                /\ itask' = itask]_vars
    /\ [](\A t \in Tasks : fut[t] = "decode_err" => ~TimerArmed(t))
    /\ [][\A t \in Tasks :
            (task[t].pc = "wait" /\ fut[t] = "decode_err" /\ task'[t] # task[t]) =>
                task'[t].out = IF svc = "api" THEN "InvalidResponseError" ELSE "None"]_vars

\* The polling service has handed the sink the reply of a device that has
\* no data block.
C21_InvalidReplyStored ==
    /\ svc = "gps"
    /\ \E t \in Tasks :
          /\ task[t].pc = "save"
          /\ Len(task[t].sink) = 1
          /\ task[t].sink[1].payload = "empty"

\* ---- C28 ----------------------------------------------------------------
\* C28: once initialize() has created the connection manager, the manager
\* eventually performs a connection attempt (unless stop() is called
\* first), whether start_processing() follows or initialize() is the only
\* call.
C28_ManagerAttemptsConnection ==
    (mgr.pc = "start") ~> (mgr.pc \in {"cleanup", "aenter"} \/ stopper # "idle")

\* Only initialize() was called: the manager is over, no client was ever
\* created.
C28_ManagerGoneWithoutAttempt ==
    /\ svc = "gps"
    /\ mgr.pc = "ended" /\ ~running /\ scan = "none" /\ stopper = "idle"
    /\ client = 0

\* ---- C30 ----------------------------------------------------------------
\* C30: when stop() returns, the pending-request table is empty and no
\* request future is unresolved, whatever was in flight when it was called:
\* a send cancelled by stop() takes its own entry out of the table.
C30_TableEmptyAfterStop ==
    /\ [][(stopper # "idle" /\ stopper' = "idle") =>
              /\ pending' = {}
              /\ ~leaked'
              /\ \A t \in Tasks : fut'[t] # "pending"]_vars
    /\ [][(GpsStopBegin /\ ~leaked) => ~leaked']_vars

\* stop() has returned; a request it cancelled has left its key in the
\* table.
C30_KeyLeftAfterStop ==
    /\ svc = "gps"
    /\ stopper = "idle" /\ ~running /\ scan = "ended"
    /\ leaked
    /\ \E t \in Tasks : task[t].out = "cancelled" /\ task[t].pubs = 1

\* ---- C26 ----------------------------------------------------------------
\* The on-demand call of task t returns in this step.
ApiReturns(t) == svc = "api" /\ task'[t] # task[t] /\ task'[t].pc = "idle"

\* C26: the on-demand route answers a device timeout with 408, a send on a
\* service that is not connected, a failed publish and a lost connection
\* with 503, a malformed reply with 502 and a reply with 200: no failure of
\* one kind gets the status of another kind.
C26_FailureKindsDistinct ==
    /\ [][\A t \in Tasks : ApiReturns(t) =>
            /\ (task[t].pc = "tmo") => task'[t].http = 408
            /\ (task[t].pc = "idle") => task'[t].http = 503
            /\ (task[t].pc = "pub") => task'[t].http = 503
            /\ (task[t].pc = "wait" /\ fut[t] = "conn_err") => task'[t].http = 503
            /\ (task[t].pc = "wait" /\ fut[t] = "decode_err") => task'[t].http = 502
            /\ (task[t].pc = "wait" /\ fut[t] = "result") => task'[t].http = 200]_vars
    /\ [](\A t \in Tasks :
            /\ task[t].http \in {0, 200, 408, 502, 503}
            /\ (task[t].http = 408) = (svc = "api" /\ task[t].out = "DeviceTimeoutError")
            /\ (task[t].http = 502) = (svc = "api" /\ task[t].out = "InvalidResponseError")
            /\ (task[t].http = 503) = (svc = "api" /\ task[t].out = "MQTTConnectionError"))

\* One request was answered 408 after its device stayed silent, another
\* one 502 after a malformed reply.
C26_TimeoutAndMalformed ==
    /\ svc = "api"
    /\ \E t, u \in Tasks :
          /\ task[t].pc = "idle" /\ task[t].http = 408
          /\ task[u].pc = "idle" /\ task[u].http = 502

\* ---- C22 ----------------------------------------------------------------
\* The listener handles a message whose topic has the shape sh.
HandlesOffShape(sh, k, b) ==
    \/ GpsListenOffShape(sh, k, b)
    \/ \E j \in LTasks : ApiListenOffShape(j, sh, k, b)

\* C22: an inbound message whose topic is not of the shape
\* user/{user_no}/{id}/manage/get-configs-result (wrong prefix, wrong
\* suffix, too few segments) resolves no pending entry, removes nothing
\* from the table and does not end the listener.
C22_OffShapeDiscarded ==
    [][\A sh \in OffShapes, k \in 0..MaxTasks, b \in Bodies :
          HandlesOffShape(sh, k, b) =>
              /\ fut' = fut
              /\ ncompl' = ncompl
              /\ pending' = pending
              /\ mgr' = mgr
              /\ itask' = itask]_vars

\* ---- C29 ----------------------------------------------------------------
\* C29: the normalization renames the misspelled field: a reply with
\* 'timestap' and without 'timestamp' comes out with 'timestamp' equal to
\* the old 'timestap' and without 'timestap'; a reply that has 'timestamp'
\* comes out unchanged; applying it twice gives what applying it once gives.
C29_NormalizeRenames ==
    (nz.pc = "decoded" /\ nz.n >= 1 =>
          /\ ("timestap" \in DOMAIN nz.raw /\ "timestamp" \notin DOMAIN nz.raw) =>
                /\ "timestamp" \in DOMAIN nz.cur
                /\ nz.cur["timestamp"] = nz.raw["timestap"]
                /\ "timestap" \notin DOMAIN nz.cur
          /\ "timestamp" \in DOMAIN nz.raw => nz.cur = nz.raw
          /\ nz.cur = Normalize(nz.raw))

\* What the code does in place of the renaming of C29: the value of the
\* misspelled field is copied to 'timestamp' and 'timestap' stays, every
\* other field keeps its value; a
\* reply that has 'timestamp', or has neither field, comes out unchanged;
\* applying the normalization twice gives what applying it once gives.
C29_NormalizeCopies ==
    (nz.pc = "decoded" /\ nz.n >= 1 =>
          /\ ("timestap" \in DOMAIN nz.raw /\ "timestamp" \notin DOMAIN nz.raw) =>
                /\ DOMAIN nz.cur = DOMAIN nz.raw \cup {"timestamp"}
                /\ nz.cur["timestamp"] = nz.raw["timestap"]
                /\ \A k \in DOMAIN nz.raw : nz.cur[k] = nz.raw[k]
          /\ ~("timestap" \in DOMAIN nz.raw /\ "timestamp" \notin DOMAIN nz.raw) => nz.cur = nz.raw
          /\ nz.n = MaxApply =>
                /\ DOMAIN nz.cur = DOMAIN Normalize(nz.raw)
                /\ \A k \in DOMAIN nz.cur : nz.cur[k] = Normalize(nz.raw)[k])

\* A reply with the misspelled field only has been normalized twice.
C29_MisspelledNormalizedTwice ==
    /\ nz.pc = "decoded" /\ nz.n = MaxApply
    /\ ("timestap" \in DOMAIN nz.raw /\ "timestamp" \notin DOMAIN nz.raw)
    /\ nz.cur["timestamp"] = nz.raw["timestap"]
    /\ nz.raw["timestap"] = MaxStamp

\* ---- C23 ----------------------------------------------------------------
\* C23: registering an id that is already in the pending table fails with a
\* duplicate-id error and leaves the table as it was, so the caller of the
\* entry that was there keeps waiting on a future the table still holds.
C23_DuplicateRefused ==
    [][\A id \in 1..MaxIds :
          tbl.pc = "table" /\ tbl.table[id] # 0 /\ TblRegister(id) =>
              /\ tbl'.res = "dup"
              /\ tbl'.table = tbl.table
              /\ \A f \in tbl'.waiting : \E i \in 1..MaxIds : tbl'.table[i] = f]_vars

\* An entry was replaced: a caller waits on a future that is under no id of
\* the table, and the last registration reported success.
C23_EntryReplaced ==
    /\ tbl.pc = "table"
    /\ tbl.res = "ok"
    /\ \E f \in tbl.waiting : \A i \in 1..MaxIds : tbl.table[i] # f

C25_NoSleepAfterLongTick ==
    [][sc.pc = "sleep" /\ sc'.pc = "query" /\ sc.dur >= scan_interval =>
          sc'.slept = 0]_vars

\* A tick whose work took longer than the interval was followed by a sleep
\* of the whole interval.
C25_SleptAfterLongTick ==
    /\ sc.pc = "query"
    /\ sc.dur > scan_interval
    /\ sc.slept = scan_interval

\* ---- C27 ----------------------------------------------------------------
\* C27: get_multiple_devices_realtime_info returns a map whose keys are the
\* IMEIs asked for, each once; the entry of an IMEI is the response of its
\* request (of the last one in the list when the IMEI was given more than
\* once) when that request succeeded and None when it failed with any of
\* the errors; no more than max_concurrent requests of the call are in
\* flight together, and the call ends by returning, whatever the requests
\* did.
C27_BatchMapComplete ==
    /\ bt.pc \in {"gather", "returned"} =>
          Cardinality({i \in DOMAIN bt.imeis : bt.st[i] = "flight"}) <= batch_concurrent
    /\ bt.pc = "returned" =>
          /\ DOMAIN bt.out = {bt.imeis[i] : i \in DOMAIN bt.imeis}
          /\ \A i \in DOMAIN bt.imeis :
                (\A j \in DOMAIN bt.imeis : bt.imeis[j] = bt.imeis[i] => j <= i) =>
                    bt.out[bt.imeis[i]] = IF bt.how[i] = "result" THEN i ELSE 0

\* A batch of the longest list has returned with a response for one IMEI and
\* None for another, whose request timed out.
C27_MixedBatchReturned ==
    /\ bt.pc = "returned"
    /\ Len(bt.imeis) = MaxBatch
    /\ \E i, j \in DOMAIN bt.imeis :
          /\ bt.how[i] = "result" /\ bt.out[bt.imeis[i]] = i
          /\ bt.how[j] = "DeviceTimeoutError" /\ bt.out[bt.imeis[j]] = 0

\* ---- C31 ----------------------------------------------------------------
\* C31: whenever start_processing() has set the processor running and made
\* its tick loop, also after a stop() or after the manager ended with its
\* retries used up, a connection manager eventually attempts a connection
\* (unless the processor is stopped first), so the tick loop does not wait
\* for a connection forever.
C31_RestartedManagerConnects ==
    (running /\ scan = "start") ~> (mgr.pc \in {"cleanup", "aenter"} \/ ~running)

\* The processor ran, was stopped and was started again: the manager that
\* made the client is over, none has replaced it, and the tick loop waits
\* for a connection.
C31_RestartedWithoutManager ==
    /\ svc = "gps"
    /\ running /\ stopper = "idle"
    /\ mgr.pc = "ended" /\ client # 0 /\ ~connected
    /\ scan = "waitconn"

\* ---- C32 ----------------------------------------------------------------
\* C32: while the connection manager is over with its retries used up, or
\* sleeps before a further attempt because a connect step (handshake or
\* subscribe) failed, so that no listener consumes messages, the connected
\* flag is False.
C32_FailedConnectClearsFlag ==
    svc = "gps" /\ mgr.pc \in {"exhausted", "backoff"} => ~connected

\* The last attempt failed at subscribe: the manager is over, nothing
\* listens, and the flag is True on a running processor.
C32_ExhaustedYetConnected ==
    /\ svc = "gps"
    /\ mgr.pc = "exhausted" /\ running /\ stopper = "idle"
    /\ connected
    /\ client # 0 /\ ~subs[client]

\* ---- C33 ----------------------------------------------------------------
\* C33: from the moment an attempt of the retry loop has succeeded until
\* the listener starts, the client made by that attempt stays the
\* processor's client and the connected flag stays True: no further connect
\* closes and replaces it.
C33_ListensOnReconnectedClient ==
    [][svc = "gps" /\ mgr.won /\ mgr.pc # "listen" =>
          /\ client' = client
          /\ connected => connected']_vars

\* The client of the successful attempt was closed and replaced; the
\* replacement has done its handshake and is about to subscribe.
C33_SecondClientAfterSuccess ==
    /\ svc = "gps"
    /\ mgr.won /\ running
    /\ mgr.pc = "subscribe" /\ ~mgr.retry
    /\ connected /\ link[client] = "up" /\ ~subs[client]

\* ---- C34 ----------------------------------------------------------------
\* C34: from the return of close() until a caller calls initialize() again
\* the service is not connected and no listener task exists, whatever the
\* state close() was called in.
C34_ClosedStaysDisconnected ==
    svc = "api" /\ stopper = "closed" =>
        /\ ~connected
        /\ \A j \in LTasks : itask[j].pc = "none"

\* close() has returned and no caller has called initialize() since, yet
\* the service is connected and subscribed and a listener task consumes
\* the replies.
C34_ReconnectedAfterClose ==
    /\ svc = "api"
    /\ stopper = "closed" /\ itask[0].pc = "none"
    /\ connected /\ client # 0 /\ link[client] = "up" /\ subs[client]
    /\ \E j \in LTasks : itask[j].pc = "run" /\ itask[j].cl = client

\* ---- C35 ----------------------------------------------------------------
\* C35: at any time the api service has at most one broker client in use
\* (connecting or connected, and referred to by the service or by one of
\* its calls) and at most one response-listener task, however calls of
\* initialize() by a caller and by the automatic reconnect interleave.
C35_OneClientOneListener ==
    svc = "api" =>
        /\ Cardinality({c \in Clients : Referenced(c) /\ link[c] \in {"new", "up"}}) <= 1
        /\ Cardinality({j \in LTasks : itask[j].pc \in {"new", "run"}}) <= 1

\* A caller's initialize() and the initialize() of the automatic reconnect
\* are both in progress, each awaiting the handshake of a client of its own.
C35_TwoInitializesTwoClients ==
    /\ svc = "api"
    /\ itask[0].pc = "aenter" /\ itask[1].pc = "aenter"
    /\ itask[0].cl # itask[1].cl
    /\ link[itask[0].cl] = "new" /\ link[itask[1].cl] = "new"

\* ---- C36 ----------------------------------------------------------------
\* C36: after its listener has failed, the api service gets connected again
\* by itself: from the wait that follows the failure on, it is eventually
\* connected, unless a caller steps in with initialize() or close() first.
C36_ReconnectsByItself ==
    (svc = "api" /\ \E j \in LTasks : itask[j].pc = "sleep")
        ~> (connected \/ itask[0].pc # "none" \/ stopper = "closed")

\* The automatic reconnect is under way: the listener task that saw the
\* failure awaits the handshake of the client its initialize() has made,
\* and no caller is involved.
C36_AutomaticReconnectUnderWay ==
    /\ svc = "api"
    /\ ~connected /\ stopper = "idle" /\ itask[0].pc = "none"
    /\ \E j \in LTasks : /\ itask[j].pc = "aenter"
                         /\ itask[j].cl = client
                         /\ link[client] = "new"

\* ---- C37 ----------------------------------------------------------------
\* C37: the tick loop ends only with the running flag cleared (by stop(),
\* which also cancels it); a failed publish, a failed store or a failed
\* query ends no loop, and a tick whose query gave nothing creates no
\* session task; a session query is issued only by a loop that has found
\* the processor connected, and a request is published only while it is
\* connected; a loop that sleeps can always wake up, and on waking up in a
\* running, connected processor it queries again.
C37_LoopSurvivesAndPauses ==
    /\ [][scan # "ended" /\ scan' = "ended" => ~running']_vars
    /\ [][\A t \in Tasks :
             task[t].pc \in {"pub", "save"} /\ task'[t].pc = "done" /\ running' =>
                 scan' = scan /\ scan' = "gather"]_vars
    /\ [][scan = "query" /\ scan' = "sleep" => task' = task /\ pending' = pending]_vars
    /\ [][scan # "query" /\ scan' = "query" => connected /\ running]_vars
    /\ [][\A t \in Tasks :
             task[t].pc # "pub" /\ task'[t].pc = "pub" => connected /\ client # 0]_vars
    /\ [][scan = "sleep" /\ scan' # "sleep" /\ running' /\ connected =>
             scan' = "query"]_vars
    /\ [](svc = "gps" /\ scan = "sleep" => ENABLED ScanWake)

\* After a connection loss a retry has done its handshake, and the loop,
\* which slept while the processor was disconnected, has queried again.
C37_PollingResumed ==
    /\ svc = "gps"
    /\ running /\ connected
    /\ mgr.retry /\ mgr.pc = "subscribe"
    /\ scan = "query"

\* ---- C38 ----------------------------------------------------------------
\* C38: start_journey_session changes the status of a session only from
\* pending to active and end_journey_session only from active to completed,
\* also while other requests and the expiry job run: a write of start finds
\* its session pending, a write of end finds it active.
C38_StatusMovesForward ==
    [][\A r \in 1..MaxReqs :
          /\ JsStartWrite(r) => js.rows[js.reqs[r].s].status = "pending"
          /\ (\E now \in 1..MaxTime : JsEndWrite(r, now))
                => js.rows[js.reqs[r].s].status = "active"]_vars

\* Two starts of one session had both read pending; one wrote, the session
\* was ended, and the other start is still about to write active.
C38_StartPendingOnCompleted ==
    /\ js # NoUnit
    /\ \E r \in 1..MaxReqs :
          /\ js.reqs[r].op = "start"
          /\ js.rows[js.reqs[r].s].status = "completed"

\* ---- C39 ----------------------------------------------------------------
\* C39: no two pending or active sessions of the same vehicle, and no two
\* of the same driver, have overlapping windows start_time .. end_time.
C39_NoOverlappingSessions ==
    js # NoUnit =>
        \A s, q \in 1..MaxSessions :
            (/\ s # q
             /\ js.rows[s].status \in {"pending", "active"}
             /\ js.rows[q].status \in {"pending", "active"}
             /\ js.rows[s].v = js.rows[q].v \/ js.rows[s].d = js.rows[q].d)
            => ~(js.rows[s].a < js.rows[q].b /\ js.rows[q].a < js.rows[s].b)

\* Two requests passed the checks of create before either inserted: the
\* table holds two pending sessions of one vehicle and driver with the same
\* window, and no request is in progress.
C39_TwinSessionsCreated ==
    /\ js # NoUnit
    /\ \A r \in 1..MaxReqs : js.reqs[r] = NoReq
    /\ js.rows[1] = [status |-> "pending", v |-> 1, d |-> 1, a |-> 1, b |-> 2]
    /\ js.rows[2] = js.rows[1]

=============================================================================
